---- MODULE Spec2Model ----
(***************************************************************************)
(* LLM Price Tracker: the normalizer pipeline of scripts/normalize.py.     *)
(*                                                                         *)
(* One run of main() is a state machine: the two raw feed documents are    *)
(* the inputs, the adapters normalize_openrouter and normalize_litellm     *)
(* consume them one item per step, merge_sources unions the two adapter    *)
(* outputs.  ModelInfo objects live in a heap (Python objects are shared   *)
(* by reference), dictionaries are insertion-ordered sequences of          *)
(* <<key, value>> pairs, and an exception that no handler catches ends the *)
(* run in pc = "raised".                                                   *)
(*                                                                         *)
(* Python values read from JSON are records tagged by their type in the    *)
(* field t; floats are exact decimals m * 10^e kept in canonical form.     *)
(***************************************************************************)
EXTENDS Integers, Sequences, FiniteSets, TLC

(***************************************************************************)
(* Strings                                                                 *)
(***************************************************************************)
UPPERCASE == "ABCDEFGHIJKLMNOPQRSTUVWXYZ"
LOWERCASE == "abcdefghijklmnopqrstuvwxyz"
DIGITS == "0123456789"

Ch(s, i) == SubSeq(s, i, i)

IndexIn(c, alphabet) ==
    IF \E i \in 1..Len(alphabet) : Ch(alphabet, i) = c
    THEN CHOOSE i \in 1..Len(alphabet) : Ch(alphabet, i) = c
    ELSE 0

IsDigit(c) == IndexIn(c, DIGITS) > 0

DigitVal(c) == IndexIn(c, DIGITS) - 1

\* str.lower() on one character
LowerCh(c) == IF IndexIn(c, UPPERCASE) > 0 THEN Ch(LOWERCASE, IndexIn(c, UPPERCASE)) ELSE c

\* str.upper() on one character
UpperCh(c) == IF IndexIn(c, LOWERCASE) > 0 THEN Ch(UPPERCASE, IndexIn(c, LOWERCASE)) ELSE c

RECURSIVE StrLower(_)
StrLower(s) == IF s = "" THEN "" ELSE LowerCh(Head(s)) \o StrLower(Tail(s))

RECURSIVE StrUpper(_)
StrUpper(s) == IF s = "" THEN "" ELSE UpperCh(Head(s)) \o StrUpper(Tail(s))

\* str.capitalize(): first character upper-cased, the rest lower-cased
StrCapitalize(s) == IF s = "" THEN "" ELSE UpperCh(Head(s)) \o StrLower(Tail(s))

\* str.startswith(p)
StartsWith(s, p) == Len(p) <= Len(s) /\ SubSeq(s, 1, Len(p)) = p

\* p in s
StrContains(s, p) == \E i \in 1..(Len(s) - Len(p) + 1) : SubSeq(s, i, i + Len(p) - 1) = p

\* any(p in s for p in patterns)
ContainsAny(s, patterns) == \E p \in patterns : StrContains(s, p)

\* position of the first / last occurrence of the one-character string c, 0 if none
FirstIndexOf(s, c) ==
    IF \E i \in 1..Len(s) : Ch(s, i) = c
    THEN CHOOSE i \in 1..Len(s) : Ch(s, i) = c /\ \A j \in 1..(i - 1) : Ch(s, j) # c
    ELSE 0

LastIndexOf(s, c) ==
    IF \E i \in 1..Len(s) : Ch(s, i) = c
    THEN CHOOSE i \in 1..Len(s) : Ch(s, i) = c /\ \A j \in (i + 1)..Len(s) : Ch(s, j) # c
    ELSE 0

\* s.split(c)[0] and s.split(c)[-1]
SplitFirst(s, c) == IF FirstIndexOf(s, c) = 0 THEN s ELSE SubSeq(s, 1, FirstIndexOf(s, c) - 1)

SplitLast(s, c) == IF LastIndexOf(s, c) = 0 THEN s ELSE SubSeq(s, LastIndexOf(s, c) + 1, Len(s))

\* s.replace(a, b) for one-character strings a, b
RECURSIVE StrReplaceCh(_, _, _)
StrReplaceCh(s, a, b) ==
    IF s = "" THEN ""
    ELSE (IF Head(s) = a THEN b ELSE Head(s)) \o StrReplaceCh(Tail(s), a, b)

\* s.split(): the maximal runs of non-space characters, in order
RECURSIVE SplitWords(_)
SplitWords(s) ==
    IF s = "" THEN <<>>
    ELSE IF Head(s) = " " THEN SplitWords(Tail(s))
    ELSE LET stop == FirstIndexOf(s, " ")
         IN  IF stop = 0 THEN <<s>>
             ELSE <<SubSeq(s, 1, stop - 1)>> \o SplitWords(SubSeq(s, stop + 1, Len(s)))

\* sep.join(words)
RECURSIVE StrJoin(_, _)
StrJoin(words, sep) ==
    IF words = <<>> THEN ""
    ELSE IF Len(words) = 1 THEN words[1]
    ELSE words[1] \o sep \o StrJoin(Tail(words), sep)

\* re.sub(lead + r"\d{8}$", "", s): drop a trailing lead character followed by 8
\* digits (for s without a line break: '$' also matches before a final newline)
StripDateSuffix(s, lead) ==
    IF /\ Len(s) >= 9
       /\ Ch(s, Len(s) - 8) = lead
       /\ \A i \in (Len(s) - 7)..Len(s) : IsDigit(Ch(s, i))
    THEN SubSeq(s, 1, Len(s) - 9)
    ELSE s

(***************************************************************************)
(* Python floats, as exact decimals m * 10^e in canonical form (no         *)
(* trailing zero in m, zero is 0 * 10^0), plus nan and the infinities.     *)
(***************************************************************************)
Fin(m, e) == [k |-> "fin", m |-> m, e |-> e]
NaN == [k |-> "nan", m |-> 0, e |-> 0]
Inf(sign) == [k |-> "inf", m |-> sign, e |-> 0]

Abs(n) == IF n < 0 THEN -n ELSE n
Sgn(n) == IF n < 0 THEN -1 ELSE 1
Min2(a, b) == IF a < b THEN a ELSE b

RECURSIVE Pow10(_)
Pow10(n) == IF n <= 0 THEN 1 ELSE 10 * Pow10(n - 1)

RECURSIVE Canon(_)
Canon(x) ==
    IF x.k # "fin" THEN x
    ELSE IF x.m = 0 THEN Fin(0, 0)
    ELSE IF x.m % 10 = 0 THEN Canon(Fin(x.m \div 10, x.e + 1))
    ELSE x

\* x * n for a positive integer n (factors of ten go to the exponent)
RECURSIVE FloatMulInt(_, _)
FloatMulInt(x, n) ==
    IF x.k # "fin" THEN x
    ELSE IF n % 10 = 0 THEN FloatMulInt(Fin(x.m, x.e + 1), n \div 10)
    ELSE Canon(Fin(x.m * n, x.e))

\* x == 0
FloatIsZero(x) == x.k = "fin" /\ x.m = 0

\* x > y (false when either is nan)
FloatGt(x, y) ==
    IF x.k = "nan" \/ y.k = "nan" THEN FALSE
    ELSE IF x.k = "inf" THEN x.m > 0 /\ ~(y.k = "inf" /\ y.m > 0)
    ELSE IF y.k = "inf" THEN y.m < 0
    ELSE LET lo == Min2(x.e, y.e)
         IN  x.m * Pow10(x.e - lo) > y.m * Pow10(y.e - lo)

\* nearest integer to a / d (a >= 0, d > 0), ties to the even neighbour
RoundHalfEven(a, d) ==
    LET q == a \div d
        r == a % d
    IN  IF 2 * r > d \/ (2 * r = d /\ q % 2 = 1) THEN q + 1 ELSE q

\* the rounding left out
PyRound_Unrounded(x, ndigits) == x

\* round(x, ndigits)
PyRound(x, ndigits) ==
    IF x.k # "fin" \/ x.e >= -ndigits THEN x
    ELSE Canon(Fin(Sgn(x.m) * RoundHalfEven(Abs(x.m), Pow10(-ndigits - x.e)), -ndigits))

(***************************************************************************)
(* Python values as json.load returns them, tagged by type.                *)
(***************************************************************************)
None == [t |-> "null"]
PyBool(b) == [t |-> "bool", b |-> b]
PyInt(n) == [t |-> "int", n |-> n]
PyFloat(x) == [t |-> "float", x |-> x]
PyStr(s) == [t |-> "str", s |-> s]
PyList(l) == [t |-> "list", l |-> l]
PyDict(d) == [t |-> "dict", d |-> d]

\* bool(v)
Truthy(v) ==
    CASE v.t = "null" -> FALSE
      [] v.t = "bool" -> v.b
      [] v.t = "int" -> v.n # 0
      [] v.t = "float" -> ~FloatIsZero(v.x)
      [] v.t = "str" -> v.s # ""
      [] v.t = "list" -> v.l # <<>>
      [] v.t = "dict" -> DOMAIN v.d # {}

\* a or b
PyOr(a, b) == IF Truthy(a) THEN a ELSE b

\* d.get(key, default) on a dict value
DictGet(v, key, default) == IF key \in DOMAIN v.d THEN v.d[key] ELSE default

\* the outcome of evaluating an expression: a value, or the exception raised
Ok(v) == [ok |-> TRUE, v |-> v, exc |-> "none"]
Raise(e) == [ok |-> FALSE, v |-> None, exc |-> e]

\* str.strip() for blanks
RECURSIVE StrStrip(_)
StrStrip(s) ==
    IF s = "" THEN ""
    ELSE IF Head(s) = " " THEN StrStrip(Tail(s))
    ELSE IF Ch(s, Len(s)) = " " THEN StrStrip(SubSeq(s, 1, Len(s) - 1))
    ELSE s

AllDigits(s) == \A i \in 1..Len(s) : IsDigit(Ch(s, i))

RECURSIVE DigitsVal(_)
DigitsVal(s) == IF s = "" THEN 0 ELSE 10 * DigitsVal(SubSeq(s, 1, Len(s) - 1)) + DigitVal(Ch(s, Len(s)))

HasSign(s) == s # "" /\ Head(s) \in {"+", "-"}
SignOf(s) == IF s # "" /\ Head(s) = "-" THEN -1 ELSE 1
Unsigned(s) == IF HasSign(s) THEN Tail(s) ELSE s

\* s.partition(c)[0] and s.partition(c)[2]
Before(s, c) == SplitFirst(s, c)
After(s, c) == IF FirstIndexOf(s, c) = 0 THEN "" ELSE SubSeq(s, FirstIndexOf(s, c) + 1, Len(s))

\* the digits of a decimal number, its sign and its exponent put together
FloatOfParts(sign, whole, frac, expOk, expVal) ==
    IF AllDigits(whole) /\ AllDigits(frac) /\ Len(whole) + Len(frac) >= 1 /\ expOk
    THEN Ok(Canon(Fin(sign * DigitsVal(whole \o frac), expVal - Len(frac))))
    ELSE Raise("ValueError")

\* digits[.digits] and the exponent [sign]digits after an "e"
FloatOfMantissa(sign, mant, hasExp, expo) ==
    FloatOfParts(sign, Before(mant, "."), After(mant, "."),
                 ~hasExp \/ (Unsigned(expo) # "" /\ AllDigits(Unsigned(expo))),
                 IF hasExp THEN SignOf(expo) * DigitsVal(Unsigned(expo)) ELSE 0)

\* inf | infinity | nan | digits[.digits][e[sign]digits], lower-cased
FloatOfBody(sign, body) ==
    IF body \in {"inf", "infinity"} THEN Ok(Inf(sign))
    ELSE IF body = "nan" THEN Ok(NaN)
    ELSE FloatOfMantissa(sign, Before(body, "e"), StrContains(body, "e"), After(body, "e"))

\* float(s) for a string: blanks stripped, an optional sign, then the body
FloatOfStr(s) == FloatOfBody(SignOf(StrStrip(s)), StrLower(Unsigned(StrStrip(s))))

\* float(v)
FloatOf(v) ==
    CASE v.t = "float" -> Ok(v.x)
      [] v.t = "int" -> Ok(Canon(Fin(v.n, 0)))
      [] v.t = "bool" -> Ok(Fin(IF v.b THEN 1 ELSE 0, 0))
      [] v.t = "str" -> FloatOfStr(v.s)
      [] OTHER -> Raise("TypeError")

\* int(s) for a string: [blanks][sign]digits[blanks]
IntOfStr(s) ==
    LET body == Unsigned(StrStrip(s))
    IN  IF body # "" /\ AllDigits(body) THEN Ok(SignOf(StrStrip(s)) * DigitsVal(body))
        ELSE Raise("ValueError")

\* int(v); a float is truncated toward zero
IntOf(v) ==
    CASE v.t = "int" -> Ok(v.n)
      [] v.t = "bool" -> Ok(IF v.b THEN 1 ELSE 0)
      [] v.t = "float" ->
            IF v.x.k = "nan" THEN Raise("ValueError")
            ELSE IF v.x.k = "inf" THEN Raise("OverflowError")
            ELSE IF v.x.e >= 0 THEN Ok(v.x.m * Pow10(v.x.e))
            ELSE Ok(Sgn(v.x.m) * (Abs(v.x.m) \div Pow10(-v.x.e)))
      [] v.t = "str" -> IntOfStr(v.s)
      [] OTHER -> Raise("TypeError")

(***************************************************************************)
(* Naming utilities and the classifier                                     *)
(***************************************************************************)
OPENAI_PREFIXES == {"gpt-", "o1-", "davinci", "curie", "babbage", "ada"}
MISTRAL_PREFIXES == {"mistral", "mixtral", "codestral"}

\* variants of extract_provider: the prefix table consulted before the
\* namespace, and the prefixes compared with the identifier as given
extract_provider_TableFirst(model_id) ==
    LET model_lower == StrLower(model_id)
    IN  IF \E p \in OPENAI_PREFIXES : StartsWith(model_lower, p) THEN "openai"
        ELSE IF StartsWith(model_lower, "claude") THEN "anthropic"
        ELSE IF StrContains(model_id, "/") THEN StrLower(SplitFirst(model_id, "/"))
        ELSE "unknown"

extract_provider_CaseSensitive(model_id) ==
    IF StrContains(model_id, "/") THEN StrLower(SplitFirst(model_id, "/"))
    ELSE IF \E p \in OPENAI_PREFIXES : StartsWith(model_id, p) THEN "openai"
    ELSE IF StartsWith(model_id, "claude") THEN "anthropic"
    ELSE IF StartsWith(model_id, "gemini") THEN "google"
    ELSE IF \E p \in MISTRAL_PREFIXES : StartsWith(model_id, p) THEN "mistral"
    ELSE IF StartsWith(model_id, "llama") THEN "meta"
    ELSE IF StartsWith(model_id, "deepseek") THEN "deepseek"
    ELSE IF StartsWith(model_id, "command") THEN "cohere"
    ELSE "unknown"

extract_provider(model_id) ==
    LET model_lower == StrLower(model_id)
    IN  IF StrContains(model_id, "/") THEN StrLower(SplitFirst(model_id, "/"))
        ELSE IF \E p \in OPENAI_PREFIXES : StartsWith(model_lower, p) THEN "openai"
        ELSE IF StartsWith(model_lower, "claude") THEN "anthropic"
        ELSE IF StartsWith(model_lower, "gemini") THEN "google"
        ELSE IF \E p \in MISTRAL_PREFIXES : StartsWith(model_lower, p) THEN "mistral"
        ELSE IF StartsWith(model_lower, "llama") THEN "meta"
        ELSE IF StartsWith(model_lower, "deepseek") THEN "deepseek"
        ELSE IF StartsWith(model_lower, "command") THEN "cohere"
        ELSE "unknown"

\* one word of the display name
DisplayWord(word) ==
    IF StrLower(word) \in {"gpt", "llm", "ai"} THEN StrUpper(word)
    ELSE IF StartsWith(StrLower(word), "gpt") THEN "GPT" \o SubSeq(word, 4, Len(word))
    ELSE StrCapitalize(word)

\* variant of create_display_name: the date suffix is kept
create_display_name_KeepsDate(model_id) ==
    LET name0 == IF StrContains(model_id, "/") THEN SplitLast(model_id, "/") ELSE model_id
        name3 == StrReplaceCh(StrReplaceCh(name0, "-", " "), "_", " ")
        words == SplitWords(name3)
    IN  StrJoin([i \in 1..Len(words) |-> DisplayWord(words[i])], " ")

create_display_name(model_id) ==
    LET name0 == IF StrContains(model_id, "/") THEN SplitLast(model_id, "/") ELSE model_id
        name1 == StripDateSuffix(name0, "-")
        name2 == StripDateSuffix(name1, ":")
        name3 == StrReplaceCh(StrReplaceCh(name2, "-", " "), "_", " ")
        words == SplitWords(name3)
    IN  StrJoin([i \in 1..Len(words) |-> DisplayWord(words[i])], " ")

CODE_PATTERNS == {"codestral", "code-", "coder", "starcoder", "codellama"}

FLAGSHIP_PATTERNS ==
    {"gpt-4o", "gpt-4-turbo", "gpt-4-32k", "claude-3-opus", "claude-3.5-sonnet", "claude-4",
     "gemini-1.5-pro", "gemini-ultra", "o1-preview", "o1-pro"}

\* the code patterns tried before the embedding marker
categorize_model_CodeFirst(model_id, context_window, input_price) ==
    LET model_lower == StrLower(model_id)
    IN  IF ContainsAny(model_lower, CODE_PATTERNS) THEN "code"
        ELSE IF StrContains(model_lower, "embed") THEN "embedding"
        ELSE IF ContainsAny(model_lower, FLAGSHIP_PATTERNS) THEN "flagship"
        ELSE IF FloatGt(input_price, Fin(5, 0)) THEN "flagship"
        ELSE IF FloatGt(input_price, Fin(5, -1)) THEN "standard"
        ELSE "budget"

\* the price bands with >= in place of >
categorize_model_Inclusive(model_id, context_window, input_price) ==
    LET model_lower == StrLower(model_id)
    IN  IF StrContains(model_lower, "embed") THEN "embedding"
        ELSE IF ContainsAny(model_lower, CODE_PATTERNS) THEN "code"
        ELSE IF ContainsAny(model_lower, FLAGSHIP_PATTERNS) THEN "flagship"
        ELSE IF input_price = Fin(5, 0) \/ FloatGt(input_price, Fin(5, 0)) THEN "flagship"
        ELSE IF input_price = Fin(5, -1) \/ FloatGt(input_price, Fin(5, -1)) THEN "standard"
        ELSE "budget"

categorize_model(model_id, context_window, input_price) ==
    LET model_lower == StrLower(model_id)
    IN  IF StrContains(model_lower, "embed") THEN "embedding"
        ELSE IF ContainsAny(model_lower, CODE_PATTERNS) THEN "code"
        ELSE IF ContainsAny(model_lower, FLAGSHIP_PATTERNS) THEN "flagship"
        ELSE IF FloatGt(input_price, Fin(5, 0)) THEN "flagship"
        ELSE IF FloatGt(input_price, Fin(5, -1)) THEN "standard"
        ELSE "budget"

(***************************************************************************)
(* Insertion-ordered dictionaries keyed by model id: sequences of          *)
(* <<key, value>> pairs with distinct keys.                                *)
(***************************************************************************)
MapKeys(d) == {d[j][1] : j \in 1..Len(d)}

MapHas(d, key) == key \in MapKeys(d)

MapGet(d, key) == d[CHOOSE j \in 1..Len(d) : d[j][1] = key][2]

\* d[key] = value
MapPut(d, key, value) ==
    IF MapHas(d, key)
    THEN [j \in 1..Len(d) |-> IF d[j][1] = key THEN <<key, value>> ELSE d[j]]
    ELSE Append(d, <<key, value>>)

(***************************************************************************)
(* Schema classes and their constructor-time validation                    *)
(***************************************************************************)
PricingInfo(input_per_million, output_per_million) ==
    [input_per_million |-> input_per_million,
     output_per_million |-> output_per_million,
     currency |-> "USD"]

SourceInfo(price_input, price_output, last_updated) ==
    [price_input |-> price_input, price_output |-> price_output, last_updated |-> last_updated]

ModelInfo(provider, model_id, display_name, pricing, context_window, max_output_tokens, model_type, supports_vision, supports_function_calling, category, sources) ==
    [provider |-> provider,
     model_id |-> model_id,
     display_name |-> display_name,
     pricing |-> pricing,
     context_window |-> context_window,
     max_output_tokens |-> max_output_tokens,
     model_type |-> model_type,
     supports_vision |-> supports_vision,
     supports_function_calling |-> supports_function_calling,
     supports_streaming |-> TRUE,
     category |-> category,
     sources |-> sources,
     affiliate_links |-> <<>>]

\* a field declared str accepts a str only
ValidStr(v) == v.t = "str"

\* a field declared bool accepts a bool, 0 / 1 and the usual truth words
BOOL_TRUE_WORDS == {"1", "true", "t", "yes", "y", "on"}
BOOL_FALSE_WORDS == {"0", "false", "f", "no", "n", "off"}

ValidBool(v) ==
    \/ v.t = "bool"
    \/ v.t = "int" /\ v.n \in {0, 1}
    \/ v.t = "float" /\ v.x \in {Fin(0, 0), Fin(1, 0)}
    \/ v.t = "str" /\ StrLower(v.s) \in BOOL_TRUE_WORDS \cup BOOL_FALSE_WORDS

BoolOf(v) ==
    CASE v.t = "bool" -> v.b
      [] v.t = "int" -> v.n = 1
      [] v.t = "float" -> v.x = Fin(1, 0)
      [] v.t = "str" -> StrLower(v.s) \in BOOL_TRUE_WORDS

(***************************************************************************)
(* Source adapters: what one loop iteration does with one item             *)
(***************************************************************************)
\* outcomes of one iteration: a record to store, the item skipped, an exception
Stored(rec) == [kind |-> "record", rec |-> rec, exc |-> "none"]
Skipped == [kind |-> "skip", rec |-> None, exc |-> "none"]
Thrown(e) == [kind |-> "raise", rec |-> None, exc |-> e]

\* except (ValueError, TypeError, KeyError)
CAUGHT == {"ValueError", "TypeError", "KeyError"}

IMAGE_PATTERNS ==
    {"stable-diffusion", "sdxl", "flux", "dall-e", "midjourney",
     "playground-v2", "ssd-1b", "japanese-stable"}

PER_MILLION == 1000000

\* "image" in (output_modalities or [])
ImageInOutputs(output_modalities) ==
    LET c == PyOr(output_modalities, PyList(<<>>))
    IN  CASE c.t = "list" -> Ok(\E j \in 1..Len(c.l) : c.l[j] = PyStr("image"))
          [] c.t = "str" -> Ok(StrContains(c.s, "image"))
          [] c.t = "dict" -> Ok("image" \in DOMAIN c.d)
          [] OTHER -> Raise("TypeError")

\* float(pricing_data.get(key, 0) or 0)
OpenRouterPrice(pricing_data, key) == FloatOf(PyOr(DictGet(pricing_data, key, PyInt(0)), PyInt(0)))

\* lines 263-308: the model type, the validation of the fields and the record
OpenRouterClassify(fetched_at, model_id, input_per_million, output_per_million, context_window, max_output, modality, image_out, display_name) ==
    IF ~image_out.ok THEN Thrown(image_out.exc)
    ELSE IF Truthy(modality) /\ modality.t # "str" THEN Thrown("AttributeError")
    ELSE IF ~ValidStr(display_name) \/ ~ValidStr(fetched_at) THEN Thrown("ValueError")
    ELSE
    Stored(ModelInfo(
        extract_provider(model_id),
        model_id,
        display_name.s,
        PricingInfo(PyRound(input_per_million, 4), PyRound(output_per_million, 4)),
        context_window,
        max_output,
        IF image_out.v THEN "image_generation"
        ELSE IF ContainsAny(StrLower(model_id), IMAGE_PATTERNS) THEN "image"
        ELSE "chat",
        IF Truthy(modality) THEN StrContains(StrLower(modality.s), "image") ELSE FALSE,
        TRUE,
        categorize_model(model_id, context_window, input_per_million),
        "openrouter" :> SourceInfo(PyRound(input_per_million, 4), PyRound(output_per_million, 4),
                                   fetched_at.s)))

\* lines 256-261: the output limit and the architecture
OpenRouterLimits(item, fetched_at, model_id, input_per_million, output_per_million, context_window, max_output, architecture) ==
    IF ~max_output.ok THEN Thrown(max_output.exc)
    ELSE IF architecture.t # "dict" THEN Thrown("AttributeError")
    ELSE IF model_id.t # "str" THEN Thrown("AttributeError")
    ELSE OpenRouterClassify(
             fetched_at, model_id.s, input_per_million, output_per_million, context_window,
             max_output.v,
             DictGet(architecture, "modality", PyStr("")),
             ImageInOutputs(DictGet(architecture, "output_modalities", PyList(<<>>))),
             DictGet(item, "name", PyStr(create_display_name(model_id.s))))

\* lines 246-255: the prices per million tokens, the context window, top_provider
OpenRouterConvert(item, fetched_at, model_id, prompt_cost, completion_cost, context_window, top_provider) ==
    IF ~prompt_cost.ok THEN Thrown(prompt_cost.exc)
    ELSE IF ~completion_cost.ok THEN Thrown(completion_cost.exc)
    ELSE IF ~context_window.ok THEN Thrown(context_window.exc)
    ELSE IF top_provider.t # "dict" THEN Thrown("AttributeError")
    ELSE OpenRouterLimits(
             item, fetched_at, model_id,
             FloatMulInt(prompt_cost.v, PER_MILLION),
             FloatMulInt(completion_cost.v, PER_MILLION),
             context_window.v,
             IntOf(PyOr(DictGet(top_provider, "max_completion_tokens", PyInt(0)), PyInt(0))),
             PyOr(DictGet(item, "architecture", PyDict(<<>>)), PyDict(<<>>)))

\* lines 240-245: the id and the pricing object
OpenRouterPriced(item, fetched_at, model_id, pricing_data) ==
    IF ~Truthy(model_id) THEN Skipped
    ELSE IF pricing_data.t # "dict" THEN Thrown("AttributeError")
    ELSE OpenRouterConvert(
             item, fetched_at, model_id,
             OpenRouterPrice(pricing_data, "prompt"),
             OpenRouterPrice(pricing_data, "completion"),
             IntOf(PyOr(DictGet(item, "context_length", PyInt(0)), PyInt(0))),
             PyOr(DictGet(item, "top_provider", PyDict(<<>>)), PyDict(<<>>)))

\* the body of the try block of normalize_openrouter for one item
OpenRouterTry(item, fetched_at) ==
    IF item.t # "dict" THEN Thrown("AttributeError")
    ELSE OpenRouterPriced(item, fetched_at, DictGet(item, "id", PyStr("")),
                          DictGet(item, "pricing", PyDict(<<>>)))

\* except (ValueError, TypeError, KeyError): print, continue
Handled(out) == IF out.kind = "raise" /\ out.exc \in CAUGHT THEN Skipped ELSE out

\* the zero-price rule of Feed B applied to an outcome
SkipFree(out) ==
    IF out.kind = "record"
       /\ FloatIsZero(out.rec.pricing.input_per_million)
       /\ FloatIsZero(out.rec.pricing.output_per_million)
    THEN Skipped
    ELSE out

\* Feed B's zero-price rule applied to Feed A as well
OpenRouterItem_SkipsFree(item, fetched_at) == SkipFree(Handled(OpenRouterTry(item, fetched_at)))

\* one iteration of the loop of normalize_openrouter: the try block and its handler
OpenRouterItem(item, fetched_at) == Handled(OpenRouterTry(item, fetched_at))

\* float(model_data.get(key, 0) or 0)
LiteLLMCost(model_data, key) == FloatOf(PyOr(DictGet(model_data, key, PyInt(0)), PyInt(0)))

\* the zero-price check left out
NoPricingData_Removed(input_per_million, output_per_million) == FALSE

\* if input_per_million == 0 and output_per_million == 0: continue
NoPricingData(input_per_million, output_per_million) ==
    FloatIsZero(input_per_million) /\ FloatIsZero(output_per_million)

CHAT_MODES == {"chat", "completion", "responses"}
IMAGE_MODES == {"image_generation", "image_edit"}
AUDIO_MODES == {"audio_transcription", "audio_speech"}
EMBEDDING_PATTERNS == {"embedding", "embed"}

\* the model type of a Feed B entry, as the Python value handed to ModelInfo
LiteLLMModelType(model_key, mode) ==
    LET model_name_lower == StrLower(model_key)
        is_mode(names) == mode.t = "str" /\ mode.s \in names
    IN  IF ContainsAny(model_name_lower, IMAGE_PATTERNS) THEN PyStr("image")
        ELSE IF ContainsAny(model_name_lower, EMBEDDING_PATTERNS) THEN PyStr("embedding")
        ELSE IF is_mode(CHAT_MODES) THEN PyStr("chat")
        ELSE IF is_mode(IMAGE_MODES) THEN PyStr("image")
        ELSE IF is_mode({"embedding"}) THEN PyStr("embedding")
        ELSE IF is_mode(AUDIO_MODES) THEN PyStr("audio")
        ELSE IF is_mode({"video_generation"}) THEN PyStr("video")
        ELSE IF is_mode({"rerank"}) THEN PyStr("rerank")
        ELSE IF Truthy(mode) THEN mode ELSE PyStr("chat")

\* lines 413-438: the validation of the fields and the record
LiteLLMRecord(model_key, fetched_at, input_per_million, output_per_million, max_input, max_output, provider, model_type, supports_vision, supports_fc) ==
    IF ~max_output.ok THEN Thrown(max_output.exc)
    ELSE IF Truthy(provider) /\ provider.t # "str" THEN Thrown("AttributeError")
    ELSE IF \/ ~ValidStr(model_type)
            \/ ~ValidBool(supports_vision)
            \/ ~ValidBool(supports_fc)
            \/ ~ValidStr(fetched_at)
         THEN Thrown("ValueError")
    ELSE
    Stored(ModelInfo(
        IF Truthy(provider) THEN StrLower(provider.s) ELSE extract_provider(model_key),
        model_key,
        create_display_name(model_key),
        PricingInfo(PyRound(input_per_million, 4), PyRound(output_per_million, 4)),
        max_input,
        max_output.v,
        model_type.s,
        BoolOf(supports_vision),
        BoolOf(supports_fc),
        categorize_model(model_key, max_input, input_per_million),
        "litellm" :> SourceInfo(PyRound(input_per_million, 4), PyRound(output_per_million, 4),
                                fetched_at.s)))

\* lines 361-411: the zero-price check, the limits, provider, type and capabilities
LiteLLMPriced(model_key, model_data, fetched_at, input_per_million, output_per_million, max_input) ==
    IF NoPricingData(input_per_million, output_per_million) THEN Skipped
    ELSE IF ~max_input.ok THEN Thrown(max_input.exc)
    ELSE LiteLLMRecord(
             model_key, fetched_at, input_per_million, output_per_million, max_input.v,
             IntOf(PyOr(PyOr(DictGet(model_data, "max_tokens", PyInt(0)),
                             DictGet(model_data, "max_output_tokens", PyInt(0))), PyInt(0))),
             PyOr(DictGet(model_data, "litellm_provider", PyStr("")),
                  PyStr(extract_provider(model_key))),
             LiteLLMModelType(model_key, DictGet(model_data, "mode", PyStr("chat"))),
             PyOr(DictGet(model_data, "supports_vision", PyBool(FALSE)), PyBool(FALSE)),
             PyOr(DictGet(model_data, "supports_function_calling", PyBool(FALSE)), PyBool(FALSE)))

\* lines 353-359: the two costs and their conversion to prices per million tokens
LiteLLMConvert(model_key, model_data, fetched_at, input_cost, output_cost) ==
    IF ~input_cost.ok THEN Thrown(input_cost.exc)
    ELSE IF ~output_cost.ok THEN Thrown(output_cost.exc)
    ELSE LiteLLMPriced(
             model_key, model_data, fetched_at,
             FloatMulInt(input_cost.v, PER_MILLION),
             FloatMulInt(output_cost.v, PER_MILLION),
             IntOf(PyOr(DictGet(model_data, "max_input_tokens", PyInt(0)), PyInt(0))))

\* the body of the try block of normalize_litellm for one entry
LiteLLMTry(model_key, model_data, fetched_at) ==
    IF model_data.t # "dict" THEN Skipped
    ELSE IF StartsWith(model_key, "sample_spec") THEN Skipped
    ELSE LiteLLMConvert(model_key, model_data, fetched_at,
                        LiteLLMCost(model_data, "input_cost_per_token"),
                        LiteLLMCost(model_data, "output_cost_per_token"))

\* one iteration of the loop of normalize_litellm: the try block and its handler
LiteLLMEntry(model_key, model_data, fetched_at) ==
    Handled(LiteLLMTry(model_key, model_data, fetched_at))

(***************************************************************************)
(* Merge engine                                                            *)
(***************************************************************************)
\* sources.get(name)
SourcesGet(sources, name) == IF name \in DOMAIN sources THEN sources[name] ELSE None

\* the fields of Feed B's record taken on a collision
MergeExisting_TakesB(existing, litellm_model) ==
    [litellm_model EXCEPT !.sources =
        [n \in DOMAIN existing.sources \cup {"litellm"} |->
            IF n = "litellm" THEN SourcesGet(litellm_model.sources, "litellm")
            ELSE existing.sources[n]]]

\* the sources of Feed B's record put in place of the existing ones
MergeExisting_ReplacesSources(existing, litellm_model) ==
    [existing EXCEPT !.sources = litellm_model.sources]

\* the capability flags of the two records or-ed together on a collision
MergeExisting_UnionsFlags(existing, litellm_model) ==
    [existing EXCEPT
        !.sources = [n \in DOMAIN existing.sources \cup {"litellm"} |->
                        IF n = "litellm" THEN SourcesGet(litellm_model.sources, "litellm")
                        ELSE existing.sources[n]],
        !.supports_vision = existing.supports_vision \/ litellm_model.supports_vision,
        !.supports_function_calling =
            existing.supports_function_calling \/ litellm_model.supports_function_calling]

\* the observation looked up under the wrong source name
MergeExisting_WrongKey(existing, litellm_model) ==
    [existing EXCEPT !.sources =
        [n \in DOMAIN existing.sources \cup {"litellm"} |->
            IF n = "litellm" THEN SourcesGet(litellm_model.sources, "openrouter")
            ELSE existing.sources[n]]]

\* existing.sources["litellm"] = litellm_model.sources.get("litellm")
MergeExisting(existing, litellm_model) ==
    [existing EXCEPT !.sources =
        [n \in DOMAIN existing.sources \cup {"litellm"} |->
            IF n = "litellm" THEN SourcesGet(litellm_model.sources, "litellm")
            ELSE existing.sources[n]]]

\* a record of Feed B alone left out of the result
MergeNew_Dropped(merged, model_id, ref) == merged

\* merged[model_id] = litellm_model
MergeNew(merged, model_id, ref) == MapPut(merged, model_id, ref)

(***************************************************************************)
(* load_json, inject_affiliates, build_providers_dict and the catalog     *)
(***************************************************************************)
\* what a path may hold instead of a JSON document
Missing == [t |-> "missing"]
Invalid == [t |-> "invalid"]

\* a loader that answers a missing or unreadable file with an empty document
load_json_Lenient(content) ==
    IF content \in {Missing, Invalid} THEN Ok(PyDict(<<>>)) ELSE Ok(content)

\* load_json(filepath), given what the path holds
load_json(content) ==
    IF content = Missing THEN Raise("FileNotFoundError")
    ELSE IF content = Invalid THEN Raise("ValueError")
    ELSE Ok(content)

\* provider in providers
ProviderIn(provider, providers) ==
    CASE providers.t = "dict" -> Ok(provider \in DOMAIN providers.d)
      [] providers.t = "list" -> Ok(\E j \in DOMAIN providers.l : providers.l[j] = PyStr(provider))
      [] providers.t = "str" -> Ok(StrContains(providers.s, provider))
      [] OTHER -> Raise("TypeError")

\* {provider: ..., "openrouter": ...}: the later key wins when the two are the same
AffiliateLinks(provider, link, openrouter_link) ==
    [k \in {provider, "openrouter"} |-> IF k = "openrouter" THEN openrouter_link ELSE link]

\* lines 505-509 with provider_info and providers.get("openrouter", {}) evaluated
InjectLinks(model, provider, provider_info, openrouter_info) ==
    IF provider_info.t # "dict" THEN Raise("AttributeError")
    ELSE IF openrouter_info.t # "dict" THEN Raise("AttributeError")
    ELSE Ok([model EXCEPT !.affiliate_links =
                AffiliateLinks(provider,
                               DictGet(provider_info, "affiliate_link", PyStr("")),
                               DictGet(openrouter_info, "affiliate_link", PyStr("")))])

\* lines 504-505 with the membership test evaluated
InjectFound(model, provider, providers, found) ==
    IF ~found.ok THEN Raise(found.exc)
    ELSE IF ~found.v THEN Ok(model)
    ELSE IF providers.t # "dict" THEN Raise("TypeError")
    ELSE InjectLinks(model, provider, providers.d[provider],
                     DictGet(providers, "openrouter", PyDict(<<>>)))

\* one iteration of the loop of inject_affiliates
InjectModel(model, providers) ==
    InjectFound(model, StrLower(model.provider), providers,
                ProviderIn(StrLower(model.provider), providers))

\* str.title()
StrTitle(s) ==
    [j \in 1..Len(s) |->
        IF j = 1 \/ (IndexIn(Ch(s, j - 1), LOWERCASE) = 0 /\ IndexIn(Ch(s, j - 1), UPPERCASE) = 0)
        THEN UpperCh(Ch(s, j))
        ELSE LowerCh(Ch(s, j))]

\* ProviderInfo(name=..., website=..., pricing_page=..., affiliate_link=...)
ProviderInfo(provider_id, provider_data) ==
    IF provider_data.t # "dict" THEN Raise("AttributeError")
    ELSE IF \/ ~ValidStr(DictGet(provider_data, "name", PyStr(StrTitle(provider_id))))
            \/ ~ValidStr(DictGet(provider_data, "website", PyStr("")))
            \/ ~ValidStr(DictGet(provider_data, "pricing_page", PyStr("")))
            \/ ~ValidStr(DictGet(provider_data, "affiliate_link", PyStr("")))
         THEN Raise("ValueError")
    ELSE Ok([name |-> DictGet(provider_data, "name", PyStr(StrTitle(provider_id))).s,
             website |-> DictGet(provider_data, "website", PyStr("")).s,
             pricing_page |-> DictGet(provider_data, "pricing_page", PyStr("")).s,
             affiliate_link |-> DictGet(provider_data, "affiliate_link", PyStr("")).s])

\* build_providers_dict(affiliates_data)
build_providers_dict(affiliates_data) ==
    LET given == DictGet(affiliates_data, "providers", PyDict(<<>>))
    IN  IF given.t # "dict" THEN Raise("AttributeError")
        ELSE IF \E provider_id \in DOMAIN given.d :
                    ~ProviderInfo(provider_id, given.d[provider_id]).ok
             THEN Raise((CHOOSE r \in {ProviderInfo(provider_id, given.d[provider_id]) :
                                          provider_id \in DOMAIN given.d} : ~r.ok).exc)
        ELSE Ok([provider_id \in DOMAIN given.d |->
                    ProviderInfo(provider_id, given.d[provider_id]).v])

\* the assignment a plain counter would make: every category counted once
CountCategory_Overwrites(categories, cat) == MapPut(categories, cat, 1)

\* categories[cat] = categories.get(cat, 0) + 1
CountCategory(categories, cat) ==
    MapPut(categories, cat, (IF MapHas(categories, cat) THEN MapGet(categories, cat) ELSE 0) + 1)

\* the loop over final_models.values() from the j-th model on
RECURSIVE CountCategories(_, _, _)
CountCategories(models, j, categories) ==
    IF j > Len(models) THEN categories
    ELSE CountCategories(models, j + 1, CountCategory(categories, models[j][2].category))

\* lines 591-601: prices_data from the dumped models and providers
PricesData(now, models_dict, providers_dict, categories) ==
    [generated_at |-> now,
     models |-> models_dict,
     providers |-> providers_dict,
     metadata |-> [total_models |-> Len(models_dict),
                   sources |-> <<"openrouter", "litellm">>,
                   last_scrape |-> now,
                   categories |-> categories]]

(***************************************************************************)
(* Bounds and the feed documents a run may be given                        *)
(***************************************************************************)
MaxItemsA == 2      \* items in Feed A's data list
MaxEntriesB == 2    \* keys in Feed B's data object
MaxOdd == 1         \* malformed or unusual items per feed document

SeqsUpTo(S, n) == UNION {[1..k -> S] : k \in 0..n}

\* a dict value with one key set, or one key removed
With(v, key, x) == PyDict([k \in DOMAIN v.d \cup {key} |-> IF k = key THEN x ELSE v.d[k]])
Without(v, key) == PyDict([k \in DOMAIN v.d \ {key} |-> v.d[k]])

FETCHED_A == PyStr("2025-01-01T00:00:00+00:00")
FETCHED_B == PyStr("2025-01-02T00:00:00+00:00")

OpenRouterIds == {"openai/gpt-4o", "flux-pro"}
LiteLLMKeys == <<"openai/gpt-4o", "claude-3-opus", "text-embed-3">>

\* keys for the entries that deviate: one whose name says embedding model, one
\* whose name says nothing, one whose name says image model
LiteLLMNamedKeys == <<"text-embed-3", "openai/gpt-4o", "flux-pro">>

\* a Feed A item of the documented shape
OpenRouterGood(id, prompt, completion, modality) ==
    PyDict([id |-> PyStr(id),
            name |-> PyStr("A: " \o id),
            pricing |-> PyDict([prompt |-> PyStr(prompt), completion |-> PyStr(completion)]),
            context_length |-> PyInt(128000),
            top_provider |-> PyDict([max_completion_tokens |-> PyInt(16384)]),
            architecture |-> PyDict([modality |-> PyStr(modality),
                                     output_modalities |-> PyList(<<PyStr("text")>>)])])

OpenRouterGoodItems ==
    {OpenRouterGood(id, "0", "0", "text+image->text") : id \in OpenRouterIds}
    \cup {OpenRouterGood(id, "0.000005", "0.000015", "text->text") : id \in OpenRouterIds}

OpenRouterBase == OpenRouterGood("openai/gpt-4o", "0.000005", "0.000015", "text+image->text")

OpenRouterPricing(prompt, completion) == PyDict([prompt |-> prompt, completion |-> completion])

\* items that deviate from the documented shape in one place
OpenRouterOddItems ==
    {PyStr("oops"), None, PyInt(7), PyList(<<>>)}
    \cup {With(OpenRouterBase, "id", x) : x \in {PyStr(""), None, PyInt(5)}}
    \cup {Without(OpenRouterBase, "id"), Without(OpenRouterBase, "pricing"),
          Without(OpenRouterBase, "name")}
    \cup {With(OpenRouterBase, "pricing", x) :
            x \in {None, PyStr("free"), PyList(<<>>),
                   OpenRouterPricing(PyStr("abc"), PyStr("0.000015")),
                   OpenRouterPricing(PyStr(""), PyStr("0.000015")),
                   OpenRouterPricing(None, None),
                   OpenRouterPricing(PyList(<<PyInt(1)>>), PyStr("0.000015")),
                   OpenRouterPricing(PyFloat(Fin(5, -6)), PyFloat(Fin(15, -6))),
                   OpenRouterPricing(PyStr("-1"), PyStr("-1")),
                   OpenRouterPricing(PyStr("0.00000000001"), PyStr("0")),
                   OpenRouterPricing(PyStr("0.00000123454"), PyStr("0.00000123456789"))}}
    \cup {With(OpenRouterBase, "context_length", x) :
            x \in {PyStr("abc"), None, PyFloat(Fin(125, -1)), PyStr("128000")}}
    \cup {With(OpenRouterBase, "top_provider", x) :
            x \in {None, PyStr("x"),
                   PyDict([max_completion_tokens |-> PyStr("abc")]),
                   PyDict([max_completion_tokens |-> None])}}
    \cup {With(OpenRouterBase, "architecture", x) :
            x \in {None, PyStr("text"),
                   PyDict([modality |-> PyInt(5), output_modalities |-> PyList(<<PyStr("text")>>)]),
                   PyDict([modality |-> None, output_modalities |-> None]),
                   PyDict([modality |-> PyStr("text->text"), output_modalities |-> PyInt(3)]),
                   PyDict([modality |-> PyStr("text->image"),
                           output_modalities |-> PyList(<<PyStr("image")>>)])}}
    \cup {With(OpenRouterBase, "name", x) : x \in {None, PyInt(4)}}
    \cup {With(OpenRouterBase, "id", PyStr("openai/text-embedding-3-small")),
          With(OpenRouterGood("flux-pro", "0.000005", "0.000015", "text->image"),
               "architecture",
               PyDict([modality |-> PyStr("text->image"),
                       output_modalities |-> PyList(<<PyStr("image")>>)]))}

\* a Feed B entry of the documented shape
LiteLLMGood(input_cost, output_cost, vision) ==
    PyDict([input_cost_per_token |-> input_cost,
            output_cost_per_token |-> output_cost,
            max_input_tokens |-> PyInt(128000),
            max_tokens |-> PyInt(4096),
            litellm_provider |-> PyStr("openai"),
            mode |-> PyStr("chat"),
            supports_vision |-> PyBool(vision),
            supports_function_calling |-> PyBool(FALSE)])

LiteLLMGoodEntries ==
    {LiteLLMGood(PyFloat(Fin(1, -5)), PyFloat(Fin(3, -5)), FALSE),
     LiteLLMGood(PyFloat(Fin(25, -7)), PyFloat(Fin(1, -5)), TRUE),
     LiteLLMGood(PyInt(0), PyInt(0), TRUE)}

LiteLLMBase == LiteLLMGood(PyFloat(Fin(1, -5)), PyFloat(Fin(3, -5)), TRUE)

LiteLLMCosts(v, input_cost, output_cost) ==
    With(With(v, "input_cost_per_token", input_cost), "output_cost_per_token", output_cost)

\* entries that deviate from the documented shape in one place
LiteLLMOddEntries ==
    {PyStr("oops"), None, PyInt(7), PyList(<<>>)}
    \cup {Without(Without(LiteLLMBase, "input_cost_per_token"), "output_cost_per_token")}
    \cup {LiteLLMCosts(LiteLLMBase, x[1], x[2]) :
            x \in {<<None, None>>, <<PyFloat(Fin(0, 0)), None>>, <<PyStr("0"), PyStr("0")>>,
                   <<PyStr("abc"), PyFloat(Fin(3, -5))>>, <<PyList(<<>>), PyList(<<PyInt(1)>>)>>,
                   <<PyFloat(Fin(1, -11)), PyInt(0)>>, <<PyFloat(Fin(2, -11)), PyFloat(Fin(4, -11))>>,
                   <<PyInt(-1), PyInt(-1)>>, <<PyInt(0), PyFloat(Fin(3, -5))>>,
                   <<PyStr(""), PyFloat(Fin(3, -5))>>,
                   <<PyFloat(Fin(5, -6)), PyFloat(Fin(123456789, -14))>>}}
    \cup {With(LiteLLMBase, "max_input_tokens", x) :
            x \in {PyStr("abc"), None, PyFloat(Fin(125, -1))}}
    \cup {With(LiteLLMBase, "max_tokens", x) : x \in {PyStr("x"), None}}
    \cup {With(Without(LiteLLMBase, "max_tokens"), "max_output_tokens", PyInt(8192))}
    \cup {With(LiteLLMBase, "litellm_provider", x) :
            x \in {PyInt(5), PyList(<<PyStr("openai")>>), None, PyStr(""), PyStr("OpenAI")}}
    \cup {Without(LiteLLMBase, "litellm_provider"), Without(LiteLLMBase, "mode")}
    \cup {With(LiteLLMBase, "mode", x) :
            x \in {PyInt(5), PyList(<<PyStr("chat")>>), None, PyStr("rerank"),
                   PyStr("image_generation"), PyStr("moderation")}}
    \cup {With(LiteLLMBase, "supports_vision", x) : x \in {None, PyStr("yes"), PyStr("maybe")}}

OddCount(l, odd) == Cardinality({j \in DOMAIN l : l[j] \in odd})

\* Feed A documents: a data list of at most MaxItemsA items, at most MaxOdd of them odd
OpenRouterDocs(good, odd) ==
    {PyDict([data |-> PyList(l), fetched_at |-> FETCHED_A]) :
        l \in {m \in SeqsUpTo(good \cup odd, MaxItemsA) : OddCount(m, odd) <= MaxOdd}}

\* Feed B documents: a data object over some of the first MaxEntriesB keys
LiteLLMDocs(model_keys, good, odd) ==
    LET keys == {model_keys[j] : j \in 1..Min2(MaxEntriesB, Len(model_keys))}
    IN  {PyDict([data |-> PyDict(d), fetched_at |-> FETCHED_B]) :
            d \in {e \in UNION {[K -> good \cup odd] : K \in SUBSET keys} :
                      OddCount(e, odd) <= MaxOdd}}

\* documents whose data field has the wrong container kind
WrongShapeData == {None, PyStr("error"), PyInt(0)}

\* an entry of the affiliate configuration
AffiliateEntry(name, link) ==
    PyDict([name |-> PyStr(name),
            website |-> PyStr("https://" \o link),
            pricing_page |-> PyStr("https://" \o link \o "/pricing"),
            affiliate_link |-> PyStr("https://" \o link \o "/?ref=tracker")])

AffiliatesOf(providers) == PyDict([providers |-> providers])

\* the affiliate configuration of the documented shape
AffiliatesBase ==
    AffiliatesOf(PyDict([openai |-> AffiliateEntry("OpenAI", "openai.com"),
                         openrouter |-> AffiliateEntry("OpenRouter", "openrouter.ai")]))

\* affiliate configurations: with and without Feed A's entry, and odd ones
AffiliatesDocs ==
    {AffiliatesBase, PyDict(<<>>)}
    \cup {AffiliatesOf(x) :
            x \in {PyDict(<<>>), None, PyStr("openai"), PyList(<<PyStr("openai")>>),
                   PyDict([openai |-> AffiliateEntry("OpenAI", "openai.com")]),
                   PyDict([openrouter |-> AffiliateEntry("OpenRouter", "openrouter.ai")]),
                   PyDict([openai |-> PyDict(<<>>)]),
                   PyDict([openai |-> None]),
                   PyDict([openai |-> AffiliateEntry("OpenAI", "openai.com"),
                           openrouter |-> None]),
                   PyDict([openai |-> PyDict([affiliate_link |-> PyInt(7)])])}}

\* the three input files
Disk(openrouter_json, litellm_json, affiliates_json) ==
    [openrouter |-> openrouter_json, litellm |-> litellm_json, affiliates |-> affiliates_json]

OpenRouterBaseDoc == PyDict([data |-> PyList(<<OpenRouterBase>>), fetched_at |-> FETCHED_A])
LiteLLMBaseDoc ==
    PyDict([data |-> PyDict(LiteLLMKeys[1] :> LiteLLMBase), fetched_at |-> FETCHED_B])

(***************************************************************************)
(* The run of main()                                                       *)
(***************************************************************************)
VARIABLES
    disk,               \* the input files: name -> the document in it, Missing or Invalid
    openrouter_raw,     \* the loaded Feed A document
    litellm_raw,        \* the loaded Feed B document
    affiliates,         \* the loaded affiliate configuration
    prices_data,        \* the catalog main has assembled, None before
    prices_json,        \* what the run has written to prices.json, None before
    call,               \* a function called on its own: its name and arguments
    result,             \* what that call returned, None before it returns
    pc,                 \* the call main() is at
    exc,                \* the exception that ended the run, "none" while it runs
    i,                  \* position of the current loop in its sequence
    todo,               \* keys of Feed B's data object the loop has not visited yet
    heap,               \* the ModelInfo objects, by reference
    openrouter_models,  \* normalize_openrouter's models: model id -> reference
    litellm_models,     \* normalize_litellm's models: model id -> reference
    merged,             \* merge_sources' merged: model id -> reference
    date_obj,           \* _generate_timeline's local date_obj, Unbound until assigned
    html_parts          \* _generate_timeline's html_parts

vars == <<disk, openrouter_raw, litellm_raw, affiliates, prices_data, prices_json, call, result,
          pc, exc, i, todo, heap, openrouter_models, litellm_models, merged, date_obj,
          html_parts>>

\* the locals of _generate_timeline
locals == <<date_obj, html_parts>>

calls == <<call, result, locals>>

documents == <<disk, openrouter_raw, litellm_raw, affiliates>>
outputs == <<prices_data, prices_json>>

\* raw_data.get("data", []) and raw_data.get("data", {})
data_list == DictGet(openrouter_raw, "data", PyList(<<>>))
data == DictGet(litellm_raw, "data", PyDict(<<>>))

\* raw.get("fetched_at", now)
NOW == PyStr("2025-01-03T00:00:00+00:00")
openrouter_fetched_at == DictGet(openrouter_raw, "fetched_at", NOW)
litellm_fetched_at == DictGet(litellm_raw, "fetched_at", NOW)

\* a document variable main has not assigned yet reads as the empty document
NotLoaded == PyDict(<<>>)

\* no function is called on its own during a run of main
NoCall == [fn |-> "none", args |-> <<>>]

\* a local name that no assignment has bound yet
Unbound == [t |-> "unbound"]

Start ==
    /\ call = NoCall
    /\ result = None
    /\ date_obj = Unbound
    /\ html_parts = <<>>
    /\ openrouter_raw = NotLoaded
    /\ litellm_raw = NotLoaded
    /\ affiliates = NotLoaded
    /\ prices_data = None
    /\ prices_json = None
    /\ pc = "load_openrouter"
    /\ exc = "none"
    /\ i = 1
    /\ todo = {}
    /\ heap = <<>>
    /\ openrouter_models = <<>>
    /\ litellm_models = <<>>
    /\ merged = <<>>

\* both feeds of the documented shape
InitMerge ==
    /\ disk \in {Disk(a, b, AffiliatesBase) :
                    a \in OpenRouterDocs(OpenRouterGoodItems, {}),
                    b \in LiteLLMDocs(LiteLLMKeys, LiteLLMGoodEntries, {})}
    /\ Start

\* Feed A with odd items or the wrong container
InitFeedA ==
    /\ disk \in {Disk(a, LiteLLMBaseDoc, AffiliatesBase) :
                    a \in OpenRouterDocs({OpenRouterBase,
                                          OpenRouterGood("flux-pro", "0", "0", "text->text")},
                                         OpenRouterOddItems)
                          \cup {PyDict([data |-> x, fetched_at |-> FETCHED_A]) :
                                   x \in WrongShapeData}}
    /\ Start

\* Feed B with odd entries or the wrong container
InitFeedB ==
    /\ disk \in {Disk(OpenRouterBaseDoc, b, AffiliatesBase) :
                    b \in LiteLLMDocs(LiteLLMNamedKeys, {LiteLLMBase}, LiteLLMOddEntries)
                          \cup {PyDict([data |-> x, fetched_at |-> FETCHED_B]) :
                                   x \in WrongShapeData}}
    /\ Start

\* files that are missing or not JSON, and the affiliate configurations
InitFiles ==
    /\ disk \in {Disk(a, b, c) :
                    a \in {OpenRouterBaseDoc, Missing, Invalid},
                    b \in {LiteLLMBaseDoc, Missing, Invalid},
                    c \in AffiliatesDocs \cup {Missing, Invalid}}
    /\ Start

Init == InitMerge \/ InitFeedA \/ InitFeedB \/ InitFiles

Running(at) == pc = at /\ exc = "none"

\* openrouter_raw = load_json(CURRENT_DIR / "openrouter.json")
LoadOpenRouter ==
    /\ Running("load_openrouter")
    /\ load_json(disk.openrouter).ok
    /\ openrouter_raw' = load_json(disk.openrouter).v
    /\ pc' = "load_litellm"
    /\ UNCHANGED <<calls, disk, litellm_raw, affiliates, outputs, exc, i, todo, heap,
                   openrouter_models, litellm_models, merged>>

\* litellm_raw = load_json(CURRENT_DIR / "litellm.json")
LoadLiteLLM ==
    /\ Running("load_litellm")
    /\ load_json(disk.litellm).ok
    /\ litellm_raw' = load_json(disk.litellm).v
    /\ pc' = "load_affiliates"
    /\ UNCHANGED <<calls, disk, openrouter_raw, affiliates, outputs, exc, i, todo, heap,
                   openrouter_models, litellm_models, merged>>

\* affiliates = load_json(DATA_DIR / "affiliates.json"); main calls normalize_openrouter
LoadAffiliates ==
    /\ Running("load_affiliates")
    /\ load_json(disk.affiliates).ok
    /\ affiliates' = load_json(disk.affiliates).v
    /\ pc' = "normalize_openrouter"
    /\ UNCHANGED <<calls, disk, openrouter_raw, litellm_raw, outputs, exc, i, todo, heap,
                   openrouter_models, litellm_models, merged>>

\* the file main() is about to load
Loading ==
    CASE pc = "load_openrouter" -> disk.openrouter
      [] pc = "load_litellm" -> disk.litellm
      [] pc = "load_affiliates" -> disk.affiliates

\* load_json raises; nothing in main catches it
LoadRaise ==
    /\ exc = "none"
    /\ pc \in {"load_openrouter", "load_litellm", "load_affiliates"}
    /\ ~load_json(Loading).ok
    /\ exc' = load_json(Loading).exc
    /\ UNCHANGED <<calls, documents, outputs, pc, i, todo, heap, openrouter_models,
                   litellm_models, merged>>

\* without the isinstance check the for loop meets a value it cannot iterate
OpenRouterNotList_Raises ==
    /\ Running("normalize_openrouter")
    /\ data_list.t # "list"
    /\ exc' = "TypeError"
    /\ UNCHANGED <<calls, documents, outputs, pc, i, todo, heap, openrouter_models,
                   litellm_models, merged>>

\* normalize_openrouter: data is not a list, return the empty map
OpenRouterNotList ==
    /\ Running("normalize_openrouter")
    /\ data_list.t # "list"
    /\ pc' = "normalize_litellm"
    /\ todo' = IF data.t = "dict" THEN DOMAIN data.d ELSE {}
    /\ UNCHANGED <<calls, documents, outputs, exc, i, heap, openrouter_models,
                   litellm_models, merged>>

\* the loop of normalize_openrouter is at an item
OpenRouterLoop ==
    /\ Running("normalize_openrouter")
    /\ data_list.t = "list"
    /\ i <= Len(data_list.l)

StoreOpenRouter(out) ==
    /\ out.kind = "record"
    /\ heap' = Append(heap, out.rec)
    /\ openrouter_models' = MapPut(openrouter_models, out.rec.model_id, Len(heap) + 1)
    /\ i' = i + 1
    /\ UNCHANGED <<calls, documents, outputs, pc, exc, todo, litellm_models, merged>>

SkipOpenRouter(out) ==
    /\ out.kind = "skip"
    /\ i' = i + 1
    /\ UNCHANGED <<calls, documents, outputs, pc, exc, todo, heap, openrouter_models,
                   litellm_models, merged>>

RaiseOpenRouter(out) ==
    /\ out.kind = "raise"
    /\ exc' = out.exc
    /\ UNCHANGED <<calls, documents, outputs, pc, i, todo, heap, openrouter_models,
                   litellm_models, merged>>

\* one item normalized: models[model_id] = model_info
OpenRouterStore ==
    /\ OpenRouterLoop
    /\ StoreOpenRouter(OpenRouterItem(data_list.l[i], openrouter_fetched_at))

\* one item skipped: no id, or a caught conversion error
OpenRouterSkip ==
    /\ OpenRouterLoop
    /\ SkipOpenRouter(OpenRouterItem(data_list.l[i], openrouter_fetched_at))

\* an exception the handler does not catch leaves normalize_openrouter and main
OpenRouterRaise ==
    /\ OpenRouterLoop
    /\ RaiseOpenRouter(OpenRouterItem(data_list.l[i], openrouter_fetched_at))

\* normalize_openrouter returns; main calls normalize_litellm
OpenRouterReturn ==
    /\ Running("normalize_openrouter")
    /\ data_list.t = "list"
    /\ i > Len(data_list.l)
    /\ pc' = "normalize_litellm"
    /\ todo' = IF data.t = "dict" THEN DOMAIN data.d ELSE {}
    /\ UNCHANGED <<calls, documents, outputs, exc, i, heap, openrouter_models,
                   litellm_models, merged>>

\* normalize_litellm: data is not a dict, return the empty map
LiteLLMNotDict ==
    /\ Running("normalize_litellm")
    /\ data.t # "dict"
    /\ pc' = "merge_copy"
    /\ i' = 1
    /\ UNCHANGED <<calls, documents, outputs, exc, todo, heap, openrouter_models,
                   litellm_models, merged>>

\* the loop of normalize_litellm is at some entry
LiteLLMLoop ==
    /\ Running("normalize_litellm")
    /\ data.t = "dict"

StoreLiteLLM(model_key, out) ==
    /\ out.kind = "record"
    /\ heap' = Append(heap, out.rec)
    /\ litellm_models' = MapPut(litellm_models, model_key, Len(heap) + 1)
    /\ todo' = todo \ {model_key}
    /\ UNCHANGED <<calls, documents, outputs, pc, exc, i, openrouter_models, merged>>

SkipLiteLLM(model_key, out) ==
    /\ out.kind = "skip"
    /\ todo' = todo \ {model_key}
    /\ UNCHANGED <<calls, documents, outputs, pc, exc, i, heap, openrouter_models,
                   litellm_models, merged>>

RaiseLiteLLM(out) ==
    /\ out.kind = "raise"
    /\ exc' = out.exc
    /\ UNCHANGED <<calls, documents, outputs, pc, i, todo, heap, openrouter_models,
                   litellm_models, merged>>

\* one entry normalized: models[model_key] = model_info
LiteLLMStore ==
    /\ LiteLLMLoop
    /\ \E model_key \in todo :
          StoreLiteLLM(model_key, LiteLLMEntry(model_key, data.d[model_key], litellm_fetched_at))

\* one entry skipped: not a dict, a sample entry, no pricing data, or a caught error
LiteLLMSkip ==
    /\ LiteLLMLoop
    /\ \E model_key \in todo :
          SkipLiteLLM(model_key, LiteLLMEntry(model_key, data.d[model_key], litellm_fetched_at))

\* an exception the handler does not catch leaves normalize_litellm and main
LiteLLMRaise ==
    /\ LiteLLMLoop
    /\ \E model_key \in todo :
          RaiseLiteLLM(LiteLLMEntry(model_key, data.d[model_key], litellm_fetched_at))

\* normalize_litellm returns; main calls merge_sources
LiteLLMReturn ==
    /\ Running("normalize_litellm")
    /\ data.t = "dict"
    /\ todo = {}
    /\ pc' = "merge_copy"
    /\ i' = 1
    /\ UNCHANGED <<calls, documents, outputs, exc, todo, heap, openrouter_models,
                   litellm_models, merged>>

\* merge_sources, first loop: merged[model_id] = model
MergeCopy ==
    /\ Running("merge_copy")
    /\ i <= Len(openrouter_models)
    /\ merged' = MapPut(merged, openrouter_models[i][1], openrouter_models[i][2])
    /\ i' = i + 1
    /\ UNCHANGED <<calls, documents, outputs, pc, exc, todo, heap, openrouter_models,
                   litellm_models>>

MergeCopyDone ==
    /\ Running("merge_copy")
    /\ i > Len(openrouter_models)
    /\ pc' = "merge_add"
    /\ i' = 1
    /\ UNCHANGED <<calls, documents, outputs, exc, todo, heap, openrouter_models,
                   litellm_models, merged>>

\* merge_sources, second loop, the id is already in merged
MergeAddExisting ==
    /\ Running("merge_add")
    /\ i <= Len(litellm_models)
    /\ MapHas(merged, litellm_models[i][1])
    /\ LET existing == MapGet(merged, litellm_models[i][1])
           litellm_model == litellm_models[i][2]
       IN  heap' = [heap EXCEPT ![existing] = MergeExisting(heap[existing], heap[litellm_model])]
    /\ i' = i + 1
    /\ UNCHANGED <<calls, documents, outputs, pc, exc, todo, openrouter_models,
                   litellm_models, merged>>

\* merge_sources, second loop, the id is new
MergeAddNew ==
    /\ Running("merge_add")
    /\ i <= Len(litellm_models)
    /\ ~MapHas(merged, litellm_models[i][1])
    /\ merged' = MergeNew(merged, litellm_models[i][1], litellm_models[i][2])
    /\ i' = i + 1
    /\ UNCHANGED <<calls, documents, outputs, pc, exc, todo, heap, openrouter_models,
                   litellm_models>>

\* merge_sources returns; main calls inject_affiliates
MergeReturn ==
    /\ Running("merge_add")
    /\ i > Len(litellm_models)
    /\ pc' = "inject_affiliates"
    /\ i' = 1
    /\ UNCHANGED <<calls, documents, outputs, exc, todo, heap, openrouter_models,
                   litellm_models, merged>>

\* providers = affiliates_data.get("providers", {})
providers == DictGet(affiliates, "providers", PyDict(<<>>))

\* the loop of inject_affiliates is at a model
InjectLoop ==
    /\ Running("inject_affiliates")
    /\ i <= Len(merged)

InjectInto(ref, out) ==
    /\ out.ok
    /\ heap' = [heap EXCEPT ![ref] = out.v]
    /\ i' = i + 1
    /\ UNCHANGED <<calls, documents, outputs, pc, exc, todo, openrouter_models, litellm_models, merged>>

InjectFails(out) ==
    /\ ~out.ok
    /\ exc' = out.exc
    /\ UNCHANGED <<calls, documents, outputs, pc, i, todo, heap, openrouter_models, litellm_models,
                   merged>>

\* one model of the loop: its affiliate_links set, or left alone
InjectAffiliates ==
    /\ InjectLoop
    /\ InjectInto(merged[i][2], InjectModel(heap[merged[i][2]], providers))

\* an exception raised in the loop leaves inject_affiliates and main
InjectRaise ==
    /\ InjectLoop
    /\ InjectFails(InjectModel(heap[merged[i][2]], providers))

\* inject_affiliates returns; main builds the providers
InjectReturn ==
    /\ Running("inject_affiliates")
    /\ i > Len(merged)
    /\ pc' = "build_providers_dict"
    /\ UNCHANGED <<calls, documents, outputs, exc, i, todo, heap, openrouter_models, litellm_models,
                   merged>>

\* final_models.items() with each model dumped
models_dict == [j \in 1..Len(merged) |-> <<merged[j][1], heap[merged[j][2]]>>]

\* lines 578-601: the providers, the category counts and prices_data
BuildPrices ==
    /\ Running("build_providers_dict")
    /\ build_providers_dict(affiliates).ok
    /\ prices_data' = PricesData(NOW, models_dict, build_providers_dict(affiliates).v,
                                 CountCategories(models_dict, 1, <<>>))
    /\ pc' = "save_json"
    /\ UNCHANGED <<calls, documents, prices_json, exc, i, todo, heap, openrouter_models,
                   litellm_models, merged>>

\* build_providers_dict raises; nothing in main catches it
BuildRaise ==
    /\ Running("build_providers_dict")
    /\ ~build_providers_dict(affiliates).ok
    /\ exc' = build_providers_dict(affiliates).exc
    /\ UNCHANGED <<calls, documents, outputs, pc, i, todo, heap, openrouter_models, litellm_models,
                   merged>>

\* save_json(CURRENT_DIR / "prices.json", prices_data)
SaveJson ==
    /\ Running("save_json")
    /\ prices_json' = prices_data
    /\ pc' = "done"
    /\ UNCHANGED <<calls, documents, prices_data, exc, i, todo, heap, openrouter_models,
                   litellm_models, merged>>

Next ==
    \/ LoadOpenRouter
    \/ LoadLiteLLM
    \/ LoadAffiliates
    \/ LoadRaise
    \/ OpenRouterNotList
    \/ OpenRouterStore
    \/ OpenRouterSkip
    \/ OpenRouterRaise
    \/ OpenRouterReturn
    \/ LiteLLMNotDict
    \/ LiteLLMStore
    \/ LiteLLMSkip
    \/ LiteLLMRaise
    \/ LiteLLMReturn
    \/ MergeCopy
    \/ MergeCopyDone
    \/ MergeAddExisting
    \/ MergeAddNew
    \/ MergeReturn
    \/ InjectAffiliates
    \/ InjectRaise
    \/ InjectReturn
    \/ BuildPrices
    \/ BuildRaise
    \/ SaveJson

Spec == Init /\ [][Next]_vars

(***************************************************************************)
(* The changelog timeline of generate_site.py                               *)
(***************************************************************************)
\* str(n) for a natural number
RECURSIVE NatText(_)
NatText(n) == IF n < 10 THEN Ch(DIGITS, n + 1) ELSE NatText(n \div 10) \o Ch(DIGITS, (n % 10) + 1)

\* s.split(c) for a one-character string c
RECURSIVE SplitAll(_, _)
SplitAll(s, c) ==
    IF FirstIndexOf(s, c) = 0 THEN <<s>>
    ELSE <<SubSeq(s, 1, FirstIndexOf(s, c) - 1)>>
            \o SplitAll(SubSeq(s, FirstIndexOf(s, c) + 1, Len(s)), c)

MONTH_NAMES ==
    <<"January", "February", "March", "April", "May", "June", "July", "August", "September",
      "October", "November", "December">>

DAY_NAMES == <<"Monday", "Tuesday", "Wednesday", "Thursday", "Friday", "Saturday", "Sunday">>

IsLeap(year) == (year % 4 = 0 /\ year % 100 # 0) \/ year % 400 = 0

DaysInMonth(year, month) ==
    IF month = 2 THEN (IF IsLeap(year) THEN 29 ELSE 28)
    ELSE IF month \in {4, 6, 9, 11} THEN 30
    ELSE 31

\* date.weekday(): 0 is Monday
Weekday(year, month, day) ==
    LET shift == <<0, 3, 2, 5, 0, 3, 5, 1, 4, 6, 2, 4>>
        y == IF month < 3 THEN year - 1 ELSE year
    IN  (((y + (y \div 4) - (y \div 100) + (y \div 400) + shift[month] + day) % 7) + 6) % 7

\* the fields %Y, %m and %d of strptime: four digits; one or two digits from 1
\* to 12; one or two digits, or a space and a digit, from 1 to 31
YearField(s) == Len(s) = 4 /\ AllDigits(s)

MonthField(s) ==
    \/ Len(s) = 1 /\ AllDigits(s) /\ DigitsVal(s) >= 1
    \/ Len(s) = 2 /\ AllDigits(s) /\ DigitsVal(s) \in 1..12

DayField(s) ==
    \/ Len(s) = 1 /\ AllDigits(s) /\ DigitsVal(s) >= 1
    \/ Len(s) = 2 /\ AllDigits(s) /\ DigitsVal(s) \in 1..31
    \/ Len(s) = 2 /\ Ch(s, 1) = " " /\ IsDigit(Ch(s, 2)) /\ DigitVal(Ch(s, 2)) >= 1

DayValue(s) == IF Ch(s, 1) = " " THEN DigitVal(Ch(s, 2)) ELSE DigitsVal(s)

\* the date of three parsed fields, if there is such a day
DateOfFields(year, month, day) ==
    IF year < 1 \/ day > DaysInMonth(year, month) THEN Raise("ValueError")
    ELSE Ok([year |-> year, month |-> month, day |-> day])

\* datetime.strptime(date_str, "%Y-%m-%d") with date_str split at '-'
StrptimeFields(fields) ==
    IF Len(fields) # 3 THEN Raise("ValueError")
    ELSE IF ~(YearField(fields[1]) /\ MonthField(fields[2]) /\ DayField(fields[3]))
         THEN Raise("ValueError")
    ELSE DateOfFields(DigitsVal(fields[1]), DigitsVal(fields[2]), DayValue(fields[3]))

strptime(date_str) == StrptimeFields(SplitAll(date_str, "-"))

\* "%02d" % n and "%04d" % n
Padded(n, width) ==
    LET text == NatText(n)
    IN  SubSeq("0000", 1, width - Len(text)) \o text

\* date_obj.strftime("%B %d, %Y") and date_obj.strftime("%A")
FormattedDate(d) == MONTH_NAMES[d.month] \o " " \o Padded(d.day, 2) \o ", " \o Padded(d.year, 4)

DayName(d) == DAY_NAMES[Weekday(d.year, d.month, d.day) + 1]

\* [c for c in changes if c.get("change_type") == change_type]
ChangesOfType(changes, change_type) ==
    LET Test(c) == DictGet(c, "change_type", None) = PyStr(change_type)
    IN  SelectSeq(changes, Test)

\* _render_change_group: the block of a group, as its title, colour and changes
RenderChangeGroup(title, changes, color) == [title |-> title, color |-> color, changes |-> changes]

\* the block of a group that has changes, nothing for a group without
GroupHtml(title, changes, color) ==
    IF changes # <<>> THEN <<RenderChangeGroup(title, changes, color)>> ELSE <<>>

\* changes_html: the blocks of the four groups, in this order
ChangesHtml(changes) ==
    GroupHtml("Price Drops", ChangesOfType(changes, "price_decrease"), "green")
        \o GroupHtml("Price Increases", ChangesOfType(changes, "price_increase"), "red")
        \o GroupHtml("New Models", ChangesOfType(changes, "new_model"), "blue")
        \o GroupHtml("Discontinued", ChangesOfType(changes, "removed_model"), "gray")

\* {date_obj.day if 'date_obj' in dir() else '?'}: bound is the local date_obj,
\* which keeps the value an earlier iteration gave it
DateMarker(bound, parsed) == IF bound # Unbound THEN NatText(bound.day) ELSE "?"

\* the timeline item of one changelog, as the values its template is filled with
TimelineItem(cl, marker, formatted_date, day_name) ==
    [marker |-> marker,
     formatted_date |-> formatted_date,
     day_name |-> day_name,
     drops |-> DictGet(DictGet(cl, "summary", PyDict(<<>>)), "price_decreases", PyInt(0)),
     new |-> DictGet(DictGet(cl, "summary", PyDict(<<>>)), "new_models", PyInt(0)),
     changes_html |-> ChangesHtml(DictGet(cl, "changes", PyList(<<>>)).l)]

\* "".join(html_parts): the page fragment, as the sequence of its items
HtmlJoin(parts) == PyList(parts)

\* a change of a changelog
Change(change_type, model_id) ==
    PyDict([change_type |-> PyStr(change_type), model_id |-> PyStr(model_id),
            provider |-> PyStr("openai")])

\* a changelog document: its changes and its summary
Changelog(changes) ==
    PyDict([changes |-> PyList(changes),
            summary |-> PyDict([price_decreases |-> PyInt(Len(ChangesOfType(changes, "price_decrease"))),
                                new_models |-> PyInt(Len(ChangesOfType(changes, "new_model")))])])

\* the files data/changelog can hold, in the order sorted(..., reverse=True)
\* visits them: name without .json, and content
CHANGELOG_FILES ==
    << <<"notes", PyList(<<>>)>>,
       <<"latest", Changelog(<<>>)>>,
       <<"backup", Changelog(<<Change("new_model", "openai/gpt-4o")>>)>>,
       <<"2025-12-30", Changelog(<<Change("price_decrease", "openai/gpt-4o"),
                                   Change("removed_model", "claude-2")>>)>>,
       <<"2025-12-29", Changelog(<<>>)>>,
       <<"2025-12-29-old", Changelog(<<Change("price_increase", "openai/gpt-4o")>>)>>,
       <<"2025-12-28", Invalid>>,
       <<"2025-11-31", PyDict(<<>>)>>,
       <<"2025-1-5", Changelog(<<Change("new_model", "claude-3-opus")>>)>>,
       <<"2025-02-29", Changelog(<<>>)>>,
       <<"2024-02-29", Changelog(<<Change("price_decrease", "claude-3-opus")>>)>> >>

MaxChangelogs == 3

\* the k-th smallest member of a set of numbers
KthOf(S, k) == CHOOSE x \in S : Cardinality({y \in S : y < x}) = k - 1

\* the directories with at most MaxChangelogs of the files, each as the sequence
\* of its files in the order of the loop
ChangelogDirs ==
    {[k \in 1..Cardinality(S) |-> CHANGELOG_FILES[KthOf(S, k)]] :
        S \in {T \in SUBSET (1..Len(CHANGELOG_FILES)) : Cardinality(T) <= MaxChangelogs}}

\* the body of the loop of _load_all_changelogs for one file: nothing for
\* latest.json, for a file that is no JSON and for one that is no object
LoadChangelog(file) ==
    IF file[1] = "latest" THEN <<>>
    ELSE IF file[2] = Invalid THEN <<>>
    ELSE IF file[2].t # "dict" THEN <<>>
    ELSE <<With(file[2], "_date", PyStr(file[1]))>>

\* _load_all_changelogs() for a directory
RECURSIVE load_all_changelogs(_)
load_all_changelogs(files) ==
    IF files = <<>> THEN <<>>
    ELSE LoadChangelog(Head(files)) \o load_all_changelogs(Tail(files))

(***************************************************************************)
(* The helper functions called on their own                                *)
(***************************************************************************)
\* the state of a run of main()
run == <<documents, outputs, pc, exc, i, todo, heap, openrouter_models, litellm_models, merged>>

\* the module is imported and main() is not run
Imported ==
    /\ disk = Disk(Missing, Missing, Missing)
    /\ openrouter_raw = NotLoaded
    /\ litellm_raw = NotLoaded
    /\ affiliates = NotLoaded
    /\ prices_data = None
    /\ prices_json = None
    /\ pc = "imported"
    /\ exc = "none"
    /\ i = 1
    /\ todo = {}
    /\ heap = <<>>
    /\ openrouter_models = <<>>
    /\ litellm_models = <<>>
    /\ merged = <<>>

\* identifiers with and without an embedding marker, a code pattern and a flagship name
CategorizeIds ==
    {"text-embedding-3", "code-embed-v1", "Codestral-Embed", "gpt-4o-embed", "codestral-2501",
     "gpt-4o-coder", "StarCoder2", "claude-3-opus", "openai/GPT-4o-mini", "mistral-small",
     "llama-3-8b", ""}

\* prices per million tokens on and around the two band limits, and the floats
\* that are no decimal numbers
CategorizePrices ==
    {Fin(0, 0), Fin(-1, 0), Fin(49, -2), Fin(5, -1), Fin(5000001, -7), Fin(51, -2), Fin(3, 0),
     Fin(49999, -4), Fin(5, 0), Fin(50001, -4), Fin(6, 0), Fin(100, 0), Inf(1), Inf(-1), NaN}

CategorizeWindows == {0, 128000}

\* identifiers with a namespace (one or more '/', any case, an empty segment, a
\* namespace that itself starts with a table prefix) and without (every row of
\* the prefix table in lower and mixed case, near misses, the empty string)
ProviderIds ==
    {"OpenAI/gpt-4o", "custom/claude-3", "openai/gpt-4o", "a/B/c", "/gpt-4", "gemini/",
     "gpt-proxy/claude-3", "Meta-Llama/Llama-3/8b",
     "gpt-4", "GPT-4", "gptx", "o1-mini", "o1", "davinci-002", "curie", "babbage-002", "ada",
     "adaptive-7b", "claude-3", "Claude-Instant", "gemini-pro", "mistral-small", "Mixtral-8x7b",
     "codestral-2501", "llama-3", "deepseek-chat", "command-r", "mystery-model", ""}

\* identifiers with and without a namespace, with a date suffix after '-' and
\* after ':', with eight digits that are not at the end, with seven digits,
\* with both suffixes in either order, with the override words in any case
DisplayIds ==
    {"anthropic/claude-3-opus-20240229", "openai/gpt-4o", "gpt-4-20240229-preview", "",
     "model:20240229", "a-20240229:20240229", "a:20240229-20240229", "my_model-v2", "GPTNeo",
     "gptZero", "AI-llm_Gpt", "x/y/z-model", "claude-2024022", "DeepSeek-V3", "-20240229",
     "org/", "claude--3", "20240229", "llama-3.1-70b-instruct", "mistral 7B_v0.1"}

CategorizeCalls ==
    {[fn |-> "categorize_model", args |-> <<model_id, context_window, input_price>>] :
        model_id \in CategorizeIds,
        context_window \in CategorizeWindows,
        input_price \in CategorizePrices}

ExtractProviderCalls == {[fn |-> "extract_provider", args |-> <<model_id>>] : model_id \in ProviderIds}

DisplayNameCalls == {[fn |-> "create_display_name", args |-> <<model_id>>] : model_id \in DisplayIds}

\* timeline_html = _generate_timeline(_load_all_changelogs())
TimelineCalls ==
    {[fn |-> "_generate_timeline", args |-> <<PyList(load_all_changelogs(files))>>] :
        files \in ChangelogDirs}

InitFunctions ==
    /\ Imported
    /\ result = None
    /\ date_obj = Unbound
    /\ html_parts = <<>>
    /\ \/ call \in CategorizeCalls
       \/ call \in ExtractProviderCalls
       \/ call \in DisplayNameCalls
       \/ call \in TimelineCalls

\* categorize_model(model_id, context_window, input_price) returns
ReturnCategorize ==
    /\ call.fn = "categorize_model"
    /\ result = None
    /\ result' = PyStr(categorize_model(call.args[1], call.args[2], call.args[3]))
    /\ UNCHANGED <<call, run, locals>>

\* extract_provider(model_id) returns
ReturnExtractProvider ==
    /\ call.fn = "extract_provider"
    /\ result = None
    /\ result' = PyStr(extract_provider(call.args[1]))
    /\ UNCHANGED <<call, run, locals>>

\* create_display_name(model_id) returns
ReturnDisplayName ==
    /\ call.fn = "create_display_name"
    /\ result = None
    /\ result' = PyStr(create_display_name(call.args[1]))
    /\ UNCHANGED <<call, run, locals>>

\* _generate_timeline is running and has not returned
InTimeline == call.fn = "_generate_timeline" /\ result = None

\* if not changelogs: return ""
TimelineEmpty ==
    /\ InTimeline
    /\ call.args[1].l = <<>>
    /\ result' = HtmlJoin(<<>>)
    /\ UNCHANGED <<call, run, locals>>

\* the loop of _generate_timeline is at a changelog
TimelineLoop == InTimeline /\ Len(html_parts) < Len(call.args[1].l)

\* the rest of the iteration once the try statement is through, with date_obj
\* as the try statement left it
TimelineAppend(cl, parsed, bound, formatted_date, day_name) ==
    /\ date_obj' = bound
    /\ html_parts' = Append(html_parts,
                            TimelineItem(cl, DateMarker(bound, parsed), formatted_date, day_name))
    /\ UNCHANGED <<call, result, run>>

TimelineTry(cl, date_str, parsed) ==
    /\ parsed.ok
    /\ TimelineAppend(cl, parsed, parsed.v, FormattedDate(parsed.v), DayName(parsed.v))

TimelineCatch(cl, date_str, parsed) ==
    /\ ~parsed.ok
    /\ TimelineAppend(cl, parsed, date_obj, date_str, "")

\* one iteration whose date parses: date_obj, formatted_date and day_name are set
TimelineParsed ==
    /\ TimelineLoop
    /\ \E cl \in {call.args[1].l[Len(html_parts) + 1]} :
          TimelineTry(cl, DictGet(cl, "_date", PyStr("Unknown")).s,
                      strptime(DictGet(cl, "_date", PyStr("Unknown")).s))

\* one iteration whose date raises ValueError: formatted_date is the date
\* string, day_name is empty and date_obj is not assigned
TimelineExcept ==
    /\ TimelineLoop
    /\ \E cl \in {call.args[1].l[Len(html_parts) + 1]} :
          TimelineCatch(cl, DictGet(cl, "_date", PyStr("Unknown")).s,
                        strptime(DictGet(cl, "_date", PyStr("Unknown")).s))

\* return "".join(html_parts)
TimelineReturn ==
    /\ InTimeline
    /\ call.args[1].l # <<>>
    /\ Len(html_parts) = Len(call.args[1].l)
    /\ result' = HtmlJoin(html_parts)
    /\ UNCHANGED <<call, run, locals>>

NextFunctions ==
    \/ ReturnCategorize
    \/ ReturnExtractProvider
    \/ ReturnDisplayName
    \/ TimelineEmpty
    \/ TimelineParsed
    \/ TimelineExcept
    \/ TimelineReturn

SpecFunctions == InitFunctions /\ [][NextFunctions]_vars

(***************************************************************************)
(* Vocabulary of the properties                                            *)
(***************************************************************************)
\* the record a map holds for an id
RecordOf(d, id) == heap[MapGet(d, id)]

\* a map with every reference replaced by the record it points to
Deref(d) == [id \in MapKeys(d) |-> RecordOf(d, id)]

\* main() is past the call
MergeReturned == pc \in {"inject_affiliates", "build_providers_dict", "save_json", "done"}
LiteLLMReturned == pc \in {"merge_copy", "merge_add"} \/ MergeReturned
OpenRouterReturned == pc = "normalize_litellm" \/ LiteLLMReturned

\* the items of Feed A's list the loop has been through
OpenRouterSeen ==
    IF data_list.t # "list" THEN {}
    ELSE IF pc = "normalize_openrouter" THEN 1..(i - 1)
    ELSE IF OpenRouterReturned THEN 1..Len(data_list.l)
    ELSE {}

\* the Feed A item at position j is the last seen one that put a record under its id
OpenRouterLastFor(j) ==
    LET out(k) == OpenRouterItem(data_list.l[k], openrouter_fetched_at)
    IN  /\ out(j).kind = "record"
        /\ \A k \in OpenRouterSeen : k > j /\ out(k).kind = "record"
                                        => out(k).rec.model_id # out(j).rec.model_id

\* the record normalize_openrouter made for an id of its output
OpenRouterMade(id) ==
    LET out(k) == OpenRouterItem(data_list.l[k], openrouter_fetched_at)
        j == CHOOSE k \in OpenRouterSeen :
                 out(k).kind = "record" /\ out(k).rec.model_id = id /\ OpenRouterLastFor(k)
    IN  out(j).rec

\* the record normalize_litellm made for a key of its output
LiteLLMMade(model_key) == LiteLLMEntry(model_key, data.d[model_key], litellm_fetched_at).rec

\* a decimal number given as text
DecimalText(v) == v.t = "str" /\ FloatOfStr(v.s).ok /\ FloatOfStr(v.s).v.k = "fin"

IsNumber(v) == v.t \in {"int", "float"} /\ (v.t = "float" => v.x.k = "fin")

HasAll(v, keys) == v.t = "dict" /\ keys \subseteq DOMAIN v.d

\* a Feed A item of the documented shape
WellFormedA(item) ==
    /\ HasAll(item, {"id", "name", "pricing", "context_length", "top_provider", "architecture"})
    /\ item.d.id.t = "str" /\ item.d.id.s # ""
    /\ item.d.name.t = "str"
    /\ HasAll(item.d.pricing, {"prompt", "completion"})
    /\ DecimalText(item.d.pricing.d.prompt) /\ DecimalText(item.d.pricing.d.completion)
    /\ item.d.context_length.t = "int"
    /\ HasAll(item.d.top_provider, {"max_completion_tokens"})
    /\ item.d.top_provider.d.max_completion_tokens.t = "int"
    /\ HasAll(item.d.architecture, {"modality", "output_modalities"})
    /\ item.d.architecture.d.modality.t = "str"
    /\ item.d.architecture.d.output_modalities.t = "list"
    /\ \A j \in DOMAIN item.d.architecture.d.output_modalities.l :
           item.d.architecture.d.output_modalities.l[j].t = "str"

\* a Feed B entry of the documented shape with a price that is not zero
WellFormedPricedB(entry) ==
    /\ HasAll(entry, {"input_cost_per_token", "output_cost_per_token", "max_input_tokens",
                      "max_tokens", "litellm_provider", "mode", "supports_vision",
                      "supports_function_calling"})
    /\ IsNumber(entry.d.input_cost_per_token) /\ IsNumber(entry.d.output_cost_per_token)
    /\ FloatGt(FloatOf(entry.d.input_cost_per_token).v, Fin(1, -9))
    /\ FloatGt(FloatOf(entry.d.output_cost_per_token).v, Fin(1, -9))
    /\ entry.d.max_input_tokens.t = "int" /\ entry.d.max_tokens.t = "int"
    /\ entry.d.litellm_provider.t = "str" /\ entry.d.mode.t = "str"
    /\ entry.d.supports_vision.t = "bool" /\ entry.d.supports_function_calling.t = "bool"

\* a price field of a Feed B entry that is 0, null or absent
NoCost(entry, key) ==
    \/ key \notin DOMAIN entry.d
    \/ entry.d[key] = None
    \/ entry.d[key].t \in {"int", "float"} /\ FloatIsZero(FloatOf(entry.d[key]).v)

\* x >= 0
FloatGeZero(x) == (x.k = "fin" /\ x.m >= 0) \/ (x.k = "inf" /\ x.m > 0)

NonNegativePrices(rec) ==
    FloatGeZero(rec.pricing.input_per_million) /\ FloatGeZero(rec.pricing.output_per_million)

ZeroPrices(rec) ==
    FloatIsZero(rec.pricing.input_per_million) /\ FloatIsZero(rec.pricing.output_per_million)

\* the fields of a record that the merge must take from Feed A
AUTHORITATIVE_FIELDS ==
    {"provider", "display_name", "pricing", "context_window", "max_output_tokens", "model_type",
     "supports_vision", "supports_function_calling", "supports_streaming", "category"}

Authoritative(rec) == [f \in AUTHORITATIVE_FIELDS |-> rec[f]]

InBoth == MapKeys(openrouter_models) \cap MapKeys(litellm_models)

(***************************************************************************)
(* Properties                                                              *)
(***************************************************************************)
\* C1: when merge_sources has returned, the ids of merged are exactly the ids of
\* openrouter_models together with the ids of litellm_models, each held once.
C1_MergeKeySet ==
    MergeReturned =>
        /\ MapKeys(merged) = MapKeys(openrouter_models) \cup MapKeys(litellm_models)
        /\ Cardinality(MapKeys(merged)) = Len(merged)

\* a finished merge of two maps that share an id and each hold an id of their own
C1_Witness ==
    /\ MergeReturned
    /\ InBoth # {}
    /\ MapKeys(openrouter_models) \ MapKeys(litellm_models) # {}
    /\ MapKeys(litellm_models) \ MapKeys(openrouter_models) # {}

\* C2: when merge_sources has returned, a record whose id both adapters produced
\* has every field other than sources as normalize_openrouter made it.
C2_MergeAuthority ==
    MergeReturned =>
        \A id \in InBoth : Authoritative(RecordOf(merged, id)) = Authoritative(OpenRouterMade(id))

\* a finished merge where Feed A says vision and another price than Feed B for a shared id
C2_Witness ==
    /\ MergeReturned
    /\ \E id \in InBoth :
          /\ OpenRouterMade(id).supports_vision
          /\ ~LiteLLMMade(id).supports_vision
          /\ OpenRouterMade(id).pricing # LiteLLMMade(id).pricing
          /\ RecordOf(merged, id).supports_vision

\* C3: when merge_sources has returned, a record whose id both adapters produced
\* holds under 'openrouter' the observation normalize_openrouter made and under
\* 'litellm' the observation normalize_litellm made, and nothing else.
C3_BothObservations ==
    MergeReturned =>
        \A id \in InBoth :
            LET sources == RecordOf(merged, id).sources
            IN  /\ DOMAIN sources = {"openrouter", "litellm"}
                /\ sources["openrouter"] = OpenRouterMade(id).sources["openrouter"]
                /\ sources["litellm"] = LiteLLMMade(id).sources["litellm"]

\* a finished merge of a shared id for which the two feeds observed different prices
C3_Witness ==
    /\ MergeReturned
    /\ \E id \in InBoth :
          /\ RecordOf(merged, id).sources["openrouter"].price_input
                # RecordOf(merged, id).sources["litellm"].price_input
          /\ RecordOf(merged, id).sources["openrouter"].last_updated
                # RecordOf(merged, id).sources["litellm"].last_updated

\* C4: no step of merge_sources changes its inputs: the two maps and every record
\* in them are after the step what they were before it.
C4_InputsUnchanged ==
    [][(pc = "merge_copy" \/ pc = "merge_add") =>
          (Deref(openrouter_models)' = Deref(openrouter_models)
           /\ Deref(litellm_models)' = Deref(litellm_models))]_vars

\* C5: no record of an adapter output or of the merged catalog has a negative price.
C5_NoNegativePrice ==
    \A d \in {openrouter_models, litellm_models, merged} :
        \A id \in MapKeys(d) : NonNegativePrices(RecordOf(d, id))

\* C6: a Feed B entry whose two per-token costs are each 0, null or absent is
\* never in normalize_litellm's output.
C6_ZeroCostExcluded ==
    data.t = "dict" =>
        \A model_key \in DOMAIN data.d :
            LET entry == data.d[model_key]
            IN  /\ entry.t = "dict"
                /\ NoCost(entry, "input_cost_per_token")
                /\ NoCost(entry, "output_cost_per_token")
                => ~MapHas(litellm_models, model_key)

\* normalize_litellm has returned a record and left out a zero-cost entry whose
\* other fields are all given
C6_Witness ==
    /\ LiteLLMReturned
    /\ litellm_models # <<>>
    /\ \E model_key \in DOMAIN data.d :
          /\ HasAll(data.d[model_key], {"max_input_tokens", "max_tokens", "litellm_provider", "mode"})
          /\ NoCost(data.d[model_key], "input_cost_per_token")
          /\ NoCost(data.d[model_key], "output_cost_per_token")
          /\ ~MapHas(litellm_models, model_key)

\* C7: no record of normalize_litellm's output has both stored prices equal to 0,
\* in pricing or in its litellm observation.
C7_NoZeroConverted ==
    \A model_key \in MapKeys(litellm_models) :
        LET rec == RecordOf(litellm_models, model_key)
        IN  /\ ~ZeroPrices(rec)
            /\ ~(FloatIsZero(SourcesGet(rec.sources, "litellm").price_input)
                 /\ FloatIsZero(SourcesGet(rec.sources, "litellm").price_output))

\* a well-formed Feed A item priced "0" / "0"
FreeTierItem(item) ==
    /\ WellFormedA(item)
    /\ item.d.pricing.d.prompt = PyStr("0")
    /\ item.d.pricing.d.completion = PyStr("0")

\* C8: every well-formed Feed A item priced "0" / "0" that the adapter has been
\* through has its id in the adapter's output, and in merged once the merge has
\* returned; the record stored for the item (the one under its id unless a later
\* item of the list took the id) has both prices 0.
C8_FreeTierKept ==
    \A j \in OpenRouterSeen :
        FreeTierItem(data_list.l[j]) =>
            LET id == data_list.l[j].d.id.s
            IN  /\ MapHas(openrouter_models, id)
                /\ OpenRouterLastFor(j) => ZeroPrices(RecordOf(openrouter_models, id))
                /\ MergeReturned =>
                      /\ MapHas(merged, id)
                      /\ OpenRouterLastFor(j) => ZeroPrices(RecordOf(merged, id))

\* a finished merge where Feed A's free-tier record met a priced Feed B record of the same id
C8_Witness ==
    /\ MergeReturned
    /\ \E j \in OpenRouterSeen :
          /\ FreeTierItem(data_list.l[j])
          /\ OpenRouterLastFor(j)
          /\ data_list.l[j].d.id.s \in InBoth
          /\ ZeroPrices(RecordOf(merged, data_list.l[j].d.id.s))

\* C9: normalize_openrouter never ends with an exception, and once it has returned
\* from a data list its output holds the id of every well-formed item of the list.
C9_OpenRouterNeverAborts ==
    /\ pc = "normalize_openrouter" => exc = "none"
    /\ OpenRouterReturned /\ data_list.t = "list" =>
          \A j \in DOMAIN data_list.l :
              WellFormedA(data_list.l[j]) => MapHas(openrouter_models, data_list.l[j].d.id.s)

\* C10: normalize_litellm never ends with an exception, and once it has returned
\* from a data object its output holds the key of every well-formed priced entry.
C10_LiteLLMNeverAborts ==
    /\ pc = "normalize_litellm" => exc = "none"
    /\ LiteLLMReturned /\ data.t = "dict" =>
          \A model_key \in DOMAIN data.d :
              WellFormedPricedB(data.d[model_key]) => MapHas(litellm_models, model_key)
\* a price field holding text float() does not read, a list or an object
NonNumeric(v) == v.t \in {"str", "list", "dict"} /\ ~(v.t = "str" /\ FloatOfStr(v.s).ok)

\* one of the named price fields of a dict is given and is not numeric
NonNumericPrice(v, keys) ==
    v.t = "dict" /\ \E key \in keys \cap DOMAIN v.d : NonNumeric(v.d[key])

\* C11: a Feed A item whose pricing holds a non-numeric prompt or completion price
\* has no record in normalize_openrouter's output, and a Feed B entry whose
\* input or output cost is non-numeric has no record in normalize_litellm's output.
C11_NonNumericRejected ==
    /\ \A j \in OpenRouterSeen :
          /\ data_list.l[j].t = "dict"
          /\ NonNumericPrice(DictGet(data_list.l[j], "pricing", PyDict(<<>>)),
                             {"prompt", "completion"})
          => ~OpenRouterLastFor(j)
    /\ data.t = "dict" =>
          \A model_key \in DOMAIN data.d :
              NonNumericPrice(data.d[model_key],
                              {"input_cost_per_token", "output_cost_per_token"})
              => ~MapHas(litellm_models, model_key)
\* an input file that is missing or is not JSON
BadFile(content) == content \in {Missing, Invalid}

LOAD_CALLS == {"load_openrouter", "load_litellm", "load_affiliates"}

\* C12: nothing is written to prices.json while main is still loading; once it is
\* written the three documents have been loaded from their files; and a run with
\* a missing or invalid file never gets past the load of that file, where it ends
\* with load_json's error, with nothing written.
C12_WriteAfterLoads ==
    /\ pc \in LOAD_CALLS => prices_json = None
    /\ prices_json # None =>
          /\ ~BadFile(disk.openrouter) /\ openrouter_raw = disk.openrouter
          /\ ~BadFile(disk.litellm) /\ litellm_raw = disk.litellm
          /\ ~BadFile(disk.affiliates) /\ affiliates = disk.affiliates
    /\ BadFile(disk.openrouter) => pc = "load_openrouter"
    /\ BadFile(disk.litellm) => pc \in {"load_openrouter", "load_litellm"}
    /\ BadFile(disk.affiliates) => pc \in LOAD_CALLS
    /\ pc \in LOAD_CALLS /\ exc # "none" =>
          /\ BadFile(Loading)
          /\ exc = IF Loading = Missing THEN "FileNotFoundError" ELSE "ValueError"

\* a run that loaded both feeds and ended at an affiliates.json that is not JSON
C12_Witness ==
    /\ pc = "load_affiliates"
    /\ exc = "ValueError"
    /\ disk.affiliates = Invalid
    /\ openrouter_raw = disk.openrouter
    /\ litellm_raw = disk.litellm
    /\ prices_json = None
\* a record as the adapters make it, before inject_affiliates
WithoutLinks(rec) == [rec EXCEPT !.affiliate_links = <<>>]

\* C13: when Feed A's data is not a list, normalize_openrouter does not raise and
\* returns the empty map, and the merged catalog holds exactly the records
\* normalize_litellm made; when Feed B's data is not an object, normalize_litellm
\* does not raise and returns the empty map, and the merged catalog holds exactly
\* the records normalize_openrouter made.
C13_WrongContainer ==
    /\ data_list.t # "list" =>
          /\ pc = "normalize_openrouter" => exc = "none"
          /\ OpenRouterReturned => openrouter_models = <<>>
          /\ MergeReturned =>
                /\ MapKeys(merged) = MapKeys(litellm_models)
                /\ \A id \in MapKeys(merged) : WithoutLinks(RecordOf(merged, id)) = LiteLLMMade(id)
    /\ data.t # "dict" =>
          /\ pc = "normalize_litellm" => exc = "none"
          /\ LiteLLMReturned => litellm_models = <<>>
          /\ MergeReturned =>
                /\ MapKeys(merged) = MapKeys(openrouter_models)
                /\ \A id \in MapKeys(merged) :
                       WithoutLinks(RecordOf(merged, id)) = OpenRouterMade(id)

\* a finished merge of a Feed A whose data is not a list with a Feed B record
C13_Witness ==
    /\ MergeReturned
    /\ data_list.t # "list"
    /\ openrouter_models = <<>>
    /\ merged # <<>>
\* sum(categories.values())
RECURSIVE SumCounts(_)
SumCounts(categories) ==
    IF categories = <<>> THEN 0 ELSE categories[1][2] + SumCounts(Tail(categories))

\* the catalogs of the run: the one main assembled and the one it wrote
Catalogs == {prices_data, prices_json} \ {None}

\* C14: in every catalog main assembles or writes, the counts of
\* metadata.categories add up to metadata.total_models, which is the number of
\* entries of models; every category of the histogram has a count of at least 1,
\* which is the number of models of that category.
C14_CategoryCounts ==
    \A catalog \in Catalogs :
        LET categories == catalog.metadata.categories
        IN  /\ SumCounts(categories) = catalog.metadata.total_models
            /\ catalog.metadata.total_models = Len(catalog.models)
            /\ Cardinality(MapKeys(catalog.models)) = Len(catalog.models)
            /\ \A j \in DOMAIN categories :
                  /\ categories[j][2] >= 1
                  /\ categories[j][2] =
                        Cardinality({k \in DOMAIN catalog.models :
                                        catalog.models[k][2].category = categories[j][1]})

\* a written catalog with two categories, one of them counted more than once
C14_Witness ==
    /\ prices_json # None
    /\ Len(prices_json.metadata.categories) >= 2
    /\ \E j \in DOMAIN prices_json.metadata.categories :
          prices_json.metadata.categories[j][2] >= 2
\* a call of categorize_model has returned
Categorized == call.fn = "categorize_model" /\ result # None

\* the rules of categorize_model, read off the identifier
HasEmbed(model_id) == StrContains(StrLower(model_id), "embed")
HasCodePattern(model_id) == \E x \in CODE_PATTERNS : StrContains(StrLower(model_id), x)
HasFlagshipName(model_id) == \E x \in FLAGSHIP_PATTERNS : StrContains(StrLower(model_id), x)

\* C15: categorize_model returns 'embedding' for an identifier containing 'embed'
\* whatever else it matches and whatever the price; otherwise 'code' for an
\* identifier matching a code pattern; otherwise 'flagship' for an identifier
\* matching a flagship name, whatever the price.
C15_RuleOrder ==
    Categorized =>
        LET model_id == call.args[1]
        IN  /\ HasEmbed(model_id) => result = PyStr("embedding")
            /\ ~HasEmbed(model_id) /\ HasCodePattern(model_id) => result = PyStr("code")
            /\ ~HasEmbed(model_id) /\ ~HasCodePattern(model_id) /\ HasFlagshipName(model_id)
                  => result = PyStr("flagship")

\* an identifier with the embedding marker and a code pattern, priced in the
\* flagship band, came back as 'embedding'
C15_Witness ==
    /\ Categorized
    /\ HasEmbed(call.args[1])
    /\ HasCodePattern(call.args[1])
    /\ FloatGt(call.args[3], Fin(5, 0))
    /\ result = PyStr("embedding")

CATEGORIES == {"flagship", "standard", "budget", "code", "embedding"}

\* C16: categorize_model always returns one of the five categories, and for an
\* identifier that matches no embedding, code or flagship-name pattern and a
\* price that is a number it returns 'flagship' exactly when price > 5.0,
\* 'standard' exactly when 0.5 < price <= 5.0 and 'budget' exactly when
\* price <= 0.5.
C16_PriceBands ==
    Categorized =>
        LET model_id == call.args[1]
            input_price == call.args[3]
        IN  /\ result.t = "str" /\ result.s \in CATEGORIES
            /\ ~HasEmbed(model_id) /\ ~HasCodePattern(model_id) /\ ~HasFlagshipName(model_id)
               /\ input_price # NaN
               => /\ result = PyStr("flagship") <=> FloatGt(input_price, Fin(5, 0))
                  /\ result = PyStr("standard") <=>
                        FloatGt(input_price, Fin(5, -1)) /\ ~FloatGt(input_price, Fin(5, 0))
                  /\ result = PyStr("budget") <=> ~FloatGt(input_price, Fin(5, -1))

\* an identifier matching no pattern, priced exactly 5.0, came back as 'standard'
C16_Witness ==
    /\ Categorized
    /\ ~HasEmbed(call.args[1]) /\ ~HasCodePattern(call.args[1]) /\ ~HasFlagshipName(call.args[1])
    /\ call.args[3] = Fin(5, 0)
    /\ result = PyStr("standard")
MODEL_TYPES == {"chat", "image", "image_generation", "embedding", "audio", "video", "rerank"}

\* the maps of the run: the two adapter outputs and the merged catalog
ModelMaps == {openrouter_models, litellm_models, merged}

\* C17: every record of normalize_openrouter's output, of normalize_litellm's
\* output and of the merged catalog has a model_type among chat, image,
\* image_generation, embedding, audio, video and rerank.
C17_ModelTypeEnum ==
    \A d \in ModelMaps : \A id \in MapKeys(d) : RecordOf(d, id).model_type \in MODEL_TYPES
HasImageName(model_id) == \E p \in IMAGE_PATTERNS : StrContains(StrLower(model_id), p)

\* C18: in each adapter's output a record whose id matches an image-model name
\* pattern has an image type, and a record whose id contains 'embed' (and no
\* image pattern) has model_type 'embedding', whatever the feed declares for it.
C18_NameOverridesDeclared ==
    \A d \in {openrouter_models, litellm_models} :
        \A id \in MapKeys(d) :
            /\ HasImageName(id) => RecordOf(d, id).model_type \in {"image", "image_generation"}
            /\ HasEmbed(id) /\ ~HasImageName(id) => RecordOf(d, id).model_type = "embedding"
\* architecture.modality of a Feed A item, "" when it is not given
ModalityOf(item) ==
    DictGet(PyOr(DictGet(item, "architecture", PyDict(<<>>)), PyDict(<<>>)), "modality", PyStr(""))

\* the modality a Feed A item declares contains 'image'
DeclaresImage(item) ==
    ModalityOf(item).t = "str" /\ StrContains(StrLower(ModalityOf(item).s), "image")

\* C19: when merge_sources has returned, the record merged holds for an id of
\* normalize_openrouter's output has supports_function_calling true, and has
\* supports_vision true exactly when the modality of the Feed A item it was made
\* from contains 'image', whatever Feed B's entry for the id declares.
C19_CapabilitiesFromA ==
    MergeReturned =>
        \A j \in OpenRouterSeen :
            OpenRouterLastFor(j) =>
                LET rec == RecordOf(merged, data_list.l[j].d.id.s)
                IN  /\ rec.supports_function_calling
                    /\ rec.supports_vision <=> DeclaresImage(data_list.l[j])

\* a finished merge of a shared id for which Feed A declares no image input and
\* Feed B declares vision
C19_Witness ==
    /\ MergeReturned
    /\ \E j \in OpenRouterSeen :
          /\ OpenRouterLastFor(j)
          /\ ~DeclaresImage(data_list.l[j])
          /\ data_list.l[j].d.id.s \in InBoth
          /\ LiteLLMMade(data_list.l[j].d.id.s).supports_vision
          /\ ~LiteLLMMade(data_list.l[j].d.id.s).supports_function_calling
          /\ ~RecordOf(merged, data_list.l[j].d.id.s).supports_vision

\* a price observation of a source
IsObservation(v) == v # None /\ DOMAIN v = {"price_input", "price_output", "last_updated"}

\* C20: when merge_sources has returned, every record of merged has a sources
\* mapping that is not empty, whose values are all observations, and which has
\* the key 'openrouter' exactly when the record's model_id is in
\* normalize_openrouter's output and the key 'litellm' exactly when it is in
\* normalize_litellm's output.
C20_SourcesProvenance ==
    MergeReturned =>
        \A id \in MapKeys(merged) :
            LET rec == RecordOf(merged, id)
            IN  /\ DOMAIN rec.sources # {}
                /\ DOMAIN rec.sources \subseteq {"openrouter", "litellm"}
                /\ \A n \in DOMAIN rec.sources : IsObservation(rec.sources[n])
                /\ "openrouter" \in DOMAIN rec.sources <=> MapHas(openrouter_models, rec.model_id)
                /\ "litellm" \in DOMAIN rec.sources <=> MapHas(litellm_models, rec.model_id)

\* a finished merge holding a record seen by Feed A alone, one seen by Feed B
\* alone and one seen by both
C20_Witness ==
    /\ MergeReturned
    /\ \E a, b, c \in MapKeys(merged) :
          /\ DOMAIN RecordOf(merged, a).sources = {"openrouter"}
          /\ DOMAIN RecordOf(merged, b).sources = {"litellm"}
          /\ DOMAIN RecordOf(merged, c).sources = {"openrouter", "litellm"}

(***************************************************************************)
(* extract_provider and create_display_name                                *)
(***************************************************************************)
\* extract_provider / create_display_name has returned to its caller
ProviderReturned == call.fn = "extract_provider" /\ result # None

DisplayReturned == call.fn = "create_display_name" /\ result # None

\* C21: for every identifier containing '/', extract_provider returns the
\* lowercased segment before the first '/', whatever the prefix table says
\* about the identifier ('OpenAI/gpt-4o' gives 'openai', 'custom/claude-3'
\* gives 'custom').
C21_NamespaceWins ==
    ProviderReturned /\ StrContains(call.args[1], "/") =>
        LET model_id == call.args[1]
        IN  /\ \E k \in 1..Len(model_id) :
                  /\ Ch(model_id, k) = "/"
                  /\ \A j \in 1..(k - 1) : Ch(model_id, j) # "/"
                  /\ result = PyStr(StrLower(SubSeq(model_id, 1, k - 1)))
            /\ model_id = "OpenAI/gpt-4o" => result = PyStr("openai")
            /\ model_id = "custom/claude-3" => result = PyStr("custom")

\* an identifier whose namespace starts with a prefix of the table came back
\* as its namespace
C21_Witness ==
    /\ ProviderReturned
    /\ call.args[1] = "gpt-proxy/claude-3"
    /\ result = PyStr("gpt-proxy")

\* the ordered prefix table as the claim lists it, and with the four further
\* prefixes of its first row
CLAIMED_PREFIX_TABLE ==
    << <<{"gpt-", "o1-"}, "openai">>, <<{"claude"}, "anthropic">>, <<{"gemini"}, "google">>,
       <<{"mistral", "mixtral", "codestral"}, "mistral">>, <<{"llama"}, "meta">>,
       <<{"deepseek"}, "deepseek">>, <<{"command"}, "cohere">> >>

FULL_PREFIX_TABLE ==
    << <<{"gpt-", "o1-", "davinci", "curie", "babbage", "ada"}, "openai">> >>
        \o Tail(CLAIMED_PREFIX_TABLE)

\* the provider of the first row of the table with a prefix of s, 'unknown' if none
RECURSIVE FirstRow(_, _)
FirstRow(table, s) ==
    IF table = <<>> THEN "unknown"
    ELSE IF \E p \in Head(table)[1] : StartsWith(s, p) THEN Head(table)[2]
    ELSE FirstRow(Tail(table), s)

\* C22 as stated: for every identifier without '/', extract_provider returns
\* the provider of the first row of the table gpt-, o1- -> openai; claude ->
\* anthropic; gemini -> google; mistral, mixtral, codestral -> mistral; llama
\* -> meta; deepseek -> deepseek; command -> cohere that the lowercased
\* identifier starts with, and 'unknown' when no row matches.
C22_PrefixTable ==
    ProviderReturned /\ ~StrContains(call.args[1], "/") =>
        result = PyStr(FirstRow(CLAIMED_PREFIX_TABLE, StrLower(call.args[1])))

\* C22 as amended: the same, with davinci, curie, babbage and ada as further
\* prefixes of the openai row; 'gpt-4' gives 'openai' and 'mystery-model'
\* gives 'unknown'.
C22_PrefixTableAmended ==
    ProviderReturned /\ ~StrContains(call.args[1], "/") =>
        /\ result = PyStr(FirstRow(FULL_PREFIX_TABLE, StrLower(call.args[1])))
        /\ call.args[1] = "gpt-4" => result = PyStr("openai")
        /\ call.args[1] = "mystery-model" => result = PyStr("unknown")

\* an identifier in mixed case that starts with a prefix of the fourth row
\* came back as 'mistral'
C22_Witness ==
    /\ ProviderReturned
    /\ call.args[1] = "Mixtral-8x7b"
    /\ result = PyStr("mistral")

\* the characters create_display_name treats as word separators
IsSeparator(c) == c \in {"-", "_", " "}

\* the maximal runs of non-separator characters of s, in order
RECURSIVE WordsOf(_)
WordsOf(s) ==
    IF s = "" THEN <<>>
    ELSE IF IsSeparator(Head(s)) THEN WordsOf(Tail(s))
    ELSE LET stops == {k \in 1..Len(s) : IsSeparator(Ch(s, k))}
             stop == IF stops = {} THEN Len(s) + 1
                     ELSE CHOOSE k \in stops : \A j \in stops : k <= j
         IN  <<SubSeq(s, 1, stop - 1)>> \o WordsOf(SubSeq(s, stop, Len(s)))

\* s ends with the character lead followed by exactly eight digits (YYYYMMDD)
EndsWithDate(s, lead) ==
    /\ Len(s) >= 9
    /\ Ch(s, Len(s) - 8) = lead
    /\ AllDigits(SubSeq(s, Len(s) - 7, Len(s)))

WithoutDate(s, lead) == IF EndsWithDate(s, lead) THEN SubSeq(s, 1, Len(s) - 9) ELSE s

\* a word in title case, with the overrides
Titled(word) ==
    IF StrLower(word) \in {"gpt", "llm", "ai"} THEN StrUpper(word)
    ELSE IF Len(word) > 3 /\ StrLower(SubSeq(word, 1, 3)) = "gpt"
         THEN "GPT" \o SubSeq(word, 4, Len(word))
    ELSE UpperCh(Ch(word, 1)) \o StrLower(SubSeq(word, 2, Len(word)))

\* words joined by single spaces
RECURSIVE Spaced(_)
Spaced(words) ==
    IF words = <<>> THEN ""
    ELSE IF Len(words) = 1 THEN Titled(words[1])
    ELSE Titled(words[1]) \o " " \o Spaced(Tail(words))

\* the identifier without its namespace: what follows its last '/'
Unqualified(model_id) ==
    LET slashes == {k \in 1..Len(model_id) : Ch(model_id, k) = "/"}
    IN  IF slashes = {} THEN model_id
        ELSE SubSeq(model_id, (CHOOSE k \in slashes : \A j \in slashes : j <= k) + 1, Len(model_id))

\* C23: create_display_name strips the namespace prefix, then a trailing
\* -YYYYMMDD, then a trailing :YYYYMMDD, treats every '-' and '_' as a space
\* and title-cases each word, with gpt/llm/ai in upper case and a word that
\* begins with gpt as 'GPT' plus its remainder unchanged;
\* 'anthropic/claude-3-opus-20240229' gives 'Claude 3 Opus', eight digits that
\* are not at the end are kept, and the empty identifier gives ''.
C23_DisplayName ==
    DisplayReturned =>
        LET model_id == call.args[1]
        IN  /\ result = PyStr(Spaced(WordsOf(WithoutDate(WithoutDate(Unqualified(model_id), "-"), ":"))))
            /\ model_id = "anthropic/claude-3-opus-20240229" => result = PyStr("Claude 3 Opus")
            /\ model_id = "gpt-4-20240229-preview" => StrContains(result.s, "20240229")
            /\ model_id = "" => result = PyStr("")

\* an identifier with a namespace and a date suffix came back without both
C23_Witness ==
    /\ DisplayReturned
    /\ call.args[1] = "anthropic/claude-3-opus-20240229"
    /\ result = PyStr("Claude 3 Opus")

\* C24: for the identifier 'openai/gpt-4o', create_display_name returns
\* 'GPT-4o', with the hyphen between 'GPT' and the version kept.
C24_DocstringExample ==
    DisplayReturned /\ call.args[1] = "openai/gpt-4o" => result = PyStr("GPT-4o")

(***************************************************************************)
(* The unit conversion of the two adapters                                 *)
(***************************************************************************)
\* the per-token price a feed gives under a key: a number, a decimal number as
\* text, or nothing (absent or null)
NoPrice(prices, key) == key \notin DOMAIN prices.d \/ prices.d[key] = None

HasPrice(prices, key) ==
    NoPrice(prices, key) \/ DecimalText(prices.d[key]) \/ IsNumber(prices.d[key])

PerToken(prices, key) ==
    IF NoPrice(prices, key) THEN Fin(0, 0)
    ELSE IF prices.d[key].t = "str" THEN FloatOfStr(prices.d[key].s).v
    ELSE FloatOf(prices.d[key]).v

\* x * 1,000,000 as a decimal
TimesMillion(x) == [x EXCEPT !.e = x.e + 6]

\* v has at most 4 decimal places and lies within half a unit of the fourth
\* decimal place of y
RoundedTo4(v, y) ==
    /\ v.k = "fin"
    /\ v.m = 0 \/ v.e >= -4
    /\ LET low == Min2(v.e, y.e)
           a == v.m * Pow10(v.e - low)
           b == y.m * Pow10(y.e - low)
       IN  IF low >= -4 THEN a = b ELSE 2 * Abs(a - b) <= Pow10(-4 - low)

\* the two stored prices of a record are the two upstream prices converted, and
\* the observation under the adapter's own name holds the same two values
Converted(rec, source, prices, input_key, output_key) ==
    /\ HasPrice(prices, input_key) =>
          RoundedTo4(rec.pricing.input_per_million, TimesMillion(PerToken(prices, input_key)))
    /\ HasPrice(prices, output_key) =>
          RoundedTo4(rec.pricing.output_per_million, TimesMillion(PerToken(prices, output_key)))
    /\ rec.sources[source].price_input = rec.pricing.input_per_million
    /\ rec.sources[source].price_output = rec.pricing.output_per_million

\* C25: in both adapters the stored price per million tokens, in pricing and in
\* the adapter's own observation, is the upstream per-token price times
\* 1,000,000 rounded to 4 decimal places, a null or missing price counting as 0;
\* a per-token price of 0.000005, as text in Feed A or as a number in Feed B,
\* is stored as 5.0.
C25_PerMillion ==
    /\ \A j \in OpenRouterSeen :
          OpenRouterLastFor(j) =>
              LET item == data_list.l[j]
                  prices == DictGet(item, "pricing", PyDict(<<>>))
                  rec == RecordOf(openrouter_models, item.d.id.s)
              IN  /\ Converted(rec, "openrouter", prices, "prompt", "completion")
                  /\ "prompt" \in DOMAIN prices.d /\ prices.d.prompt = PyStr("0.000005")
                        => rec.pricing.input_per_million = Fin(5, 0)
    /\ \A model_key \in MapKeys(litellm_models) :
          LET entry == data.d[model_key]
              rec == RecordOf(litellm_models, model_key)
          IN  /\ Converted(rec, "litellm", entry, "input_cost_per_token", "output_cost_per_token")
              /\ "input_cost_per_token" \in DOMAIN entry.d
                 /\ entry.d.input_cost_per_token = PyFloat(Fin(5, -6))
                    => rec.pricing.input_per_million = Fin(5, 0)

\* normalize_litellm has stored 5.0 for a cost of 0.000005 per token and
\* 1.2346 for a cost of 0.00000123456789 per token
C25_Witness ==
    /\ LiteLLMReturned
    /\ \E model_key \in MapKeys(litellm_models) :
          /\ data.d[model_key].d.input_cost_per_token = PyFloat(Fin(5, -6))
          /\ data.d[model_key].d.output_cost_per_token = PyFloat(Fin(123456789, -14))
          /\ RecordOf(litellm_models, model_key).pricing = PricingInfo(Fin(5, 0), Fin(12346, -4))
          /\ RecordOf(litellm_models, model_key).sources["litellm"].price_output = Fin(12346, -4)

(***************************************************************************)
(* The affiliate enrichment                                                *)
(***************************************************************************)
\* main() is past inject_affiliates
InjectReturned == pc \in {"build_providers_dict", "save_json", "done"}

\* the affiliate configuration has an entry for the provider of a record
Configured(provider) == providers.t = "dict" /\ StrLower(provider) \in DOMAIN providers.d

\* the configuration states a link for a provider id
HasLink(provider_id) ==
    /\ providers.t = "dict"
    /\ provider_id \in DOMAIN providers.d
    /\ HasAll(providers.d[provider_id], {"affiliate_link"})

\* C26: inject_affiliates never fails and never drops or adds records, for any
\* catalog and any affiliate configuration: no step of it raises, no step
\* changes the keys of the catalog or a field of a record other than
\* affiliate_links, and when it has returned every record whose provider has no
\* entry in the configuration has an empty affiliate_links.
C26_EnrichmentTotal ==
    /\ [](pc = "inject_affiliates" => exc = "none")
    /\ [][pc = "inject_affiliates" =>
             /\ merged' = merged
             /\ DOMAIN heap' = DOMAIN heap
             /\ \A ref \in DOMAIN heap : WithoutLinks(heap'[ref]) = WithoutLinks(heap[ref])]_vars
    /\ [](InjectReturned =>
             \A id \in MapKeys(merged) :
                 ~Configured(RecordOf(merged, id).provider)
                    => RecordOf(merged, id).affiliate_links = <<>>)

\* C27: when inject_affiliates has returned, every record whose provider has an
\* entry in the configuration holds that provider's configured link under the
\* provider's id, and holds the key 'openrouter' exactly when the configuration
\* has an entry for 'openrouter', with the link configured there as its value.
C27_SecondaryKey ==
    InjectReturned =>
        \A id \in MapKeys(merged) :
            LET rec == RecordOf(merged, id)
                provider == StrLower(rec.provider)
            IN  Configured(rec.provider) =>
                    /\ provider \in DOMAIN rec.affiliate_links
                    /\ HasLink(provider) =>
                          rec.affiliate_links[provider] = providers.d[provider].d.affiliate_link
                    /\ "openrouter" \in DOMAIN rec.affiliate_links
                          <=> "openrouter" \in DOMAIN providers.d
                    /\ HasLink("openrouter") =>
                          rec.affiliate_links["openrouter"] = providers.d.openrouter.d.affiliate_link

(***************************************************************************)
(* The keys of the models mappings                                         *)
(***************************************************************************)
\* every key of a map is the model_id of the record under it, and no key is
\* held twice
KeyedByModelId(d) ==
    /\ \A j \in DOMAIN d : heap[d[j][2]].model_id = d[j][1]
    /\ Cardinality(MapKeys(d)) = Len(d)

\* the fields of a record that neither the merge nor the enrichment touches
Made(rec) == [f \in AUTHORITATIVE_FIELDS \cup {"model_id"} |-> rec[f]]

\* the Feed A items seen so far that carry the id of the item at position j
SameId(j) ==
    {k \in OpenRouterSeen : data_list.l[k].t = "dict" /\ DictGet(data_list.l[k], "id", None) = data_list.l[j].d.id}

\* C28: in every adapter output, in the merged catalog and after the affiliate
\* enrichment, each key is the model_id of the record under it and is held
\* once; when Feed A's list repeats an id, the record under that id is the one
\* made from the last well-formed item with that id: it is the record of the
\* last item the adapter stored under the id, and that item has no price that
\* is not numeric.
C28_KeyIsModelId ==
    /\ \A d \in ModelMaps : KeyedByModelId(d)
    /\ \A j \in OpenRouterSeen :
          OpenRouterLastFor(j) /\ Cardinality(SameId(j)) > 1 =>
              LET item == data_list.l[j]
              IN  /\ Made(RecordOf(openrouter_models, item.d.id.s))
                        = Made(OpenRouterItem(item, openrouter_fetched_at).rec)
                  /\ ~NonNumericPrice(DictGet(item, "pricing", PyDict(<<>>)),
                                      {"prompt", "completion"})

\* C29: every record of normalize_openrouter's output and of
\* normalize_litellm's output whose category is 'embedding' has the model_type
\* 'embedding'.
C29_EmbeddingAgrees ==
    \A d \in {openrouter_models, litellm_models} :
        \A id \in MapKeys(d) :
            RecordOf(d, id).category = "embedding" => RecordOf(d, id).model_type = "embedding"

(***************************************************************************)
(* The changelog timeline                                                  *)
(***************************************************************************)
\* C30: in the timeline, the day number of an item depends on the date of its
\* own changelog only: an item whose date string is no valid date shows '?' as
\* its marker and the date string itself as its heading, whatever changelogs
\* come before it; an item whose date is valid shows the day of that date.
C30_OwnDayNumber ==
    call.fn = "_generate_timeline" =>
        \A k \in DOMAIN html_parts :
            LET date_str == call.args[1].l[k].d._date.s
            IN  IF strptime(date_str).ok
                THEN html_parts[k].marker = NatText(strptime(date_str).v.day)
                ELSE /\ html_parts[k].marker = "?"
                     /\ html_parts[k].formatted_date = date_str

====
